---------------------------- MODULE Spec2Model ----------------------------
(***************************************************************************)
(* TwitamaModoki: the navigation watcher / title resolver of an embedded   *)
(* view (useIframeUrlSync), the rate-limit tracker of the background       *)
(* worker, the content filter engine, the persisted configuration, the     *)
(* column actions of the store and the hiding of the recommended-users     *)
(* section of a profile view.                                              *)
(*                                                                         *)
(* Strings are sequences of one-character strings, so that the string      *)
(* operations of the source (indexOf, substring, trim, includes, regular   *)
(* expression tests) are computed and not assumed.  Delays are counted in  *)
(* units of 100 ms; every delay of the source is a multiple of it.         *)
(***************************************************************************)
EXTENDS Integers, Sequences, FiniteSets, Bags, TLC

(***************************************************************************)
(* Bounds of the model.                                                    *)
(***************************************************************************)
MaxNav == 2

MaxPendingChecks == 1

MaxClock == 2

MaxPosts == 2

MaxCells == 4

(***************************************************************************)
(* Character strings.                                                      *)
(***************************************************************************)
\* JavaScript null / undefined; no character string equals it
Null == <<"<null>">>

EmptyStr == << >>

Truthy(s) == s # Null /\ s # EmptyStr

WhiteSpace == {" ", "\t", "\n"}

LowerChars == {"a","b","c","d","e","f","g","h","i","j","k","l","m",
               "n","o","p","q","r","s","t","u","v","w","x","y","z"}

UpperChars == {"A","B","C","D","E","F","G","H","I","J","K","L","M",
               "N","O","P","Q","R","S","T","U","V","W","X","Y","Z"}

DigitChars == {"0","1","2","3","4","5","6","7","8","9"}

\* the character class [a-zA-Z0-9_]
WordChars == LowerChars \cup UpperChars \cup DigitChars \cup {"_"}

StartsWith(s, p) == Len(s) >= Len(p) /\ SubSeq(s, 1, Len(p)) = p

Includes(s, p) == \E i \in 1..(Len(s) + 1) : i + Len(p) - 1 <= Len(s) /\ SubSeq(s, i, i + Len(p) - 1) = p

\* String.prototype.indexOf for a single character, 1-based; 0 when absent
IndexOf(s, c) ==
    IF \E i \in 1..Len(s) : s[i] = c
    THEN CHOOSE i \in 1..Len(s) : s[i] = c /\ \A j \in 1..(i - 1) : s[j] # c
    ELSE 0

\* first position of any character of cs, 1-based; 0 when absent
IndexOfAny(s, cs) ==
    IF \E i \in 1..Len(s) : s[i] \in cs
    THEN CHOOSE i \in 1..Len(s) : s[i] \in cs /\ \A j \in 1..(i - 1) : s[j] \notin cs
    ELSE 0

Trim(s) ==
    IF \A i \in 1..Len(s) : s[i] \in WhiteSpace
    THEN EmptyStr
    ELSE LET a == CHOOSE i \in 1..Len(s) : s[i] \notin WhiteSpace /\ \A j \in 1..(i - 1) : s[j] \in WhiteSpace
             b == CHOOSE i \in 1..Len(s) : s[i] \notin WhiteSpace /\ \A j \in (i + 1)..Len(s) : s[j] \in WhiteSpace
         IN  SubSeq(s, a, b)

(***************************************************************************)
(* URLs.  new URL(url) is modelled for absolute URLs                       *)
(* (scheme://host/path?query#fragment) and for opaque URLs such as         *)
(* about:blank; anything else throws.                                      *)
(***************************************************************************)
HttpsScheme == <<"h","t","t","p","s",":","/","/">>

\* the part of an absolute URL after "scheme://": host, path, query, fragment
ParseHierarchical(rest) ==
    LET h    == IndexOfAny(rest, {"/", "?", "#"})
        tail == IF h = 0 THEN EmptyStr ELSE SubSeq(rest, h, Len(rest))
        q    == IndexOfAny(tail, {"?", "#"})
        path == IF q = 0 THEN tail ELSE SubSeq(tail, 1, q - 1)
        qs   == IF q = 0 THEN EmptyStr ELSE SubSeq(tail, q, Len(tail))
        f    == IndexOf(qs, "#")
        srch == IF f = 0 THEN qs ELSE SubSeq(qs, 1, f - 1)
    IN  IF rest = EmptyStr \/ h = 1
        THEN [ok |-> FALSE, pathname |-> EmptyStr, search |-> EmptyStr]
        ELSE [ok |-> TRUE,
              pathname |-> IF path = EmptyStr THEN <<"/">> ELSE path,
              search |-> IF Len(srch) <= 1 THEN EmptyStr ELSE srch]

\* new URL(url) for the strings of the model: an absolute URL with a
\* scheme, "://" and a host, or a scheme and a path without "//"; ok is
\* FALSE where the constructor throws
ParseUrl(url) ==
    LET colon == IndexOf(url, ":")
    IN  IF colon > 1 /\ \A i \in 1..(colon - 1) : url[i] \in LowerChars \cup UpperChars
        THEN IF Len(url) >= colon + 2 /\ url[colon + 1] = "/" /\ url[colon + 2] = "/"
             THEN CHOOSE r \in {ParseHierarchical(rest) : rest \in {SubSeq(url, colon + 3, Len(url))}} : TRUE
             ELSE IF ~Includes(url, <<":","/","/">>)
             THEN [ok |-> TRUE, pathname |-> SubSeq(url, colon + 1, Len(url)), search |-> EmptyStr]
             ELSE [ok |-> FALSE, pathname |-> EmptyStr, search |-> EmptyStr]
        ELSE [ok |-> FALSE, pathname |-> EmptyStr, search |-> EmptyStr]

\* URLSearchParams.get("q") for queries without percent-escapes
SearchParamQ(search) ==
    LET body == IF StartsWith(search, <<"?">>) THEN SubSeq(search, 2, Len(search)) ELSE search
        RECURSIVE Find(_)
        Find(s) ==
            IF s = EmptyStr THEN Null
            ELSE LET amp  == IndexOf(s, "&")
                     pair == IF amp = 0 THEN s ELSE SubSeq(s, 1, amp - 1)
                     next == IF amp = 0 THEN EmptyStr ELSE SubSeq(s, amp + 1, Len(s))
                     eq   == IndexOf(pair, "=")
                     key  == IF eq = 0 THEN pair ELSE SubSeq(pair, 1, eq - 1)
                     val  == IF eq = 0 THEN EmptyStr ELSE SubSeq(pair, eq + 1, Len(pair))
                 IN  IF key = <<"q">>
                     THEN [i \in 1..Len(val) |-> IF val[i] = "+" THEN " " ELSE val[i]]
                     ELSE Find(next)
    IN  Find(body)

PathHome == <<"/","h","o","m","e">>

PathNotifications == <<"/","n","o","t","i","f","i","c","a","t","i","o","n","s">>

PathMessages == <<"/","m","e","s","s","a","g","e","s">>

PathSearch == <<"/","s","e","a","r","c","h">>

PathLists == <<"/","i","/","l","i","s","t","s","/">>

PathExplore == <<"/","e","x","p","l","o","r","e">>

PathBookmarks == <<"/","i","/","b","o","o","k","m","a","r","k","s">>

PathCommunities == <<"/","i","/","c","o","m","m","u","n","i","t","i","e","s","/">>

\* /^\/[a-zA-Z0-9_]{1,15}$/
IsHandlePath(p) ==
    /\ Len(p) >= 2
    /\ Len(p) <= 16
    /\ p[1] = "/"
    /\ \A i \in 2..Len(p) : p[i] \in WordChars

\* /^PREFIX(\/.*)?$/
IsPrefixRoute(p, prefix) == p = prefix \/ StartsWith(p, prefix \o <<"/">>)

\* /^PREFIX.+$/ for a prefix that ends with a slash
IsTemplateRoute(p, prefix) == StartsWith(p, prefix) /\ Len(p) > Len(prefix)

\* shouldRecordUrl without the pattern of Explore
shouldRecordUrlNoExplore(url) ==
    LET u == ParseUrl(url)
        p == u.pathname
    IN  /\ u.ok
        /\ \/ p = PathHome
           \/ p = PathNotifications
           \/ IsPrefixRoute(p, PathMessages)
           \/ p = PathSearch
           \/ IsTemplateRoute(p, PathLists)
           \/ p = PathBookmarks
           \/ IsTemplateRoute(p, PathCommunities)
           \/ IsHandlePath(p)

shouldRecordUrl(url) ==
    LET u == ParseUrl(url)
        p == u.pathname
    IN  /\ u.ok
        /\ \/ p = PathHome
           \/ p = PathNotifications
           \/ IsPrefixRoute(p, PathMessages)
           \/ p = PathSearch
           \/ IsTemplateRoute(p, PathLists)
           \/ IsPrefixRoute(p, PathExplore)
           \/ p = PathBookmarks
           \/ IsTemplateRoute(p, PathCommunities)
           \/ IsHandlePath(p)

TitleHome == <<"H","o","m","e">>

TitleNotifications == <<"N","o","t","i","f","i","c","a","t","i","o","n","s">>

TitleDM == <<"D","M">>

\* a character outside ASCII is written as its code point: U+1F50D is the
\* magnifying glass, one character of the title
TitleSearchMark == <<"U+1F50D">>

TitleSearch == TitleSearchMark \o <<"S","e","a","r","c","h">>

TitleList == <<"L","i","s","t">>

TitleExplore == <<"E","x","p","l","o","r","e">>

TitleX == <<"X">>

getTitleFromUrl(url) ==
    LET u == ParseUrl(url)
        p == u.pathname
    IN  IF ~u.ok THEN TitleX
        ELSE IF p = PathHome THEN TitleHome
        ELSE IF p = PathNotifications THEN TitleNotifications
        ELSE IF IsPrefixRoute(p, PathMessages) THEN TitleDM
        ELSE IF p = PathSearch
             THEN LET keyword == SearchParamQ(u.search)
                  IN  IF Truthy(keyword) THEN TitleSearchMark \o keyword ELSE TitleSearch
        ELSE IF Includes(p, PathLists) THEN TitleList
        ELSE IF IsPrefixRoute(p, PathExplore) THEN TitleExplore
        ELSE IF Len(p) >= 2 /\ p[1] = "/" /\ \A i \in 2..Len(p) : p[i] # "/"
             THEN <<"@">> \o SubSeq(p, 2, Len(p))
        ELSE TitleX


\* getColumnTypeFromUrl(url)
getColumnTypeFromUrl(url) ==
    LET u == ParseUrl(url)
        p == u.pathname
    IN  IF ~u.ok THEN "unknown"
        ELSE IF p = PathHome THEN "home"
        ELSE IF p = PathNotifications THEN "notifications"
        ELSE IF IsPrefixRoute(p, PathMessages) THEN "messages"
        ELSE IF p = PathSearch THEN "search"
        ELSE IF IsTemplateRoute(p, PathLists) THEN "list"
        ELSE IF IsPrefixRoute(p, PathExplore) THEN "explore"
        ELSE IF p = PathBookmarks THEN "bookmarks"
        ELSE IF IsTemplateRoute(p, PathCommunities) THEN "community"
        ELSE IF IsHandlePath(p) THEN "user-profile"
        ELSE "unknown"

(***************************************************************************)
(* Name extraction from the landmark elements (config/xSelectors.ts).      *)
(* A document is the text content of its two landmark elements, Null       *)
(* when the element is absent.                                             *)
(***************************************************************************)
\* text before the first "@", trimmed; the whole trimmed text without "@"
getListName(doc) ==
    IF ~Truthy(doc.topNavBar) THEN Null
    ELSE LET text    == Trim(doc.topNavBar)
             atIndex == IndexOf(text, "@")
         IN  IF atIndex # 0 THEN Trim(SubSeq(text, 1, atIndex - 1)) ELSE text

getCommunityName(doc) ==
    IF ~Truthy(doc.topNavBar) THEN Null
    ELSE LET text    == Trim(doc.topNavBar)
             atIndex == IndexOf(text, "@")
         IN  IF atIndex # 0 THEN Trim(SubSeq(text, 1, atIndex - 1)) ELSE text

\* text from the first "@" on; null without "@"
getUserName(doc) ==
    IF ~Truthy(doc.userName) THEN Null
    ELSE LET text    == Trim(doc.userName)
             atIndex == IndexOf(text, "@")
         IN  IF atIndex = 0 THEN Null ELSE Trim(SubSeq(text, atIndex, Len(text)))

(***************************************************************************)
(* The inputs of the navigation model: the URLs a view visits, the texts   *)
(* its landmark elements show, and the column records a session starts     *)
(* with.                                                                   *)
(***************************************************************************)
Origin == HttpsScheme \o <<"x",".","c","o","m">>

AboutBlank == <<"a","b","o","u","t",":","b","l","a","n","k">>

UHome == Origin \o PathHome

UList == Origin \o PathLists \o <<"1","2","3","4","5">>

UComm == Origin \o PathCommunities \o <<"9">>

UProf == Origin \o <<"/","j","a","c","k">>

UStatus == Origin \o <<"/","j","a","c","k","/","s","t","a","t","u","s","/","1">>

USearchQ == Origin \o PathSearch \o <<"?","q","=","a">>

\* the URLs the user navigates to
NavUrls == {UList, UStatus, USearchQ}

\* every URL a view can be at
Urls == NavUrls \cup {UHome, UComm, UProf, AboutBlank}

TextMyList == <<"M","y"," ","L","i","s","t","@","s","o","m","e","u","s","e","r">>

TextJack == <<"J","a","c","k","@","j","a","c","k">>

TextNoName == <<" ","@","s","o","m","e","u","s","e","r">>

\* a landmark text without "@", with blanks around it
TextPlain == <<" ","M","y"," ","L","i","s","t"," ">>

\* the text of the name block before the handle is rendered
TextNoAt == <<"J","a","c","k">>

TopNavTexts == {Null, TextMyList, TextNoName, TextPlain}

UserNameTexts == {Null, TextJack, TextNoAt}

NoDoc == [read |-> FALSE, denied |-> FALSE, topNavBar |-> Null, userName |-> Null]

\* the step tried to read the location of the view and the access threw
DeniedDoc == [read |-> FALSE, denied |-> TRUE, topNavBar |-> Null, userName |-> Null]

TitleMyList == <<"M","y"," ","L","i","s","t">>

TitleHomeJa == <<"U+30DB","U+30FC","U+30E0">>

TitleSettingsJa == <<"U+8A2D","U+5B9A">>

PlaceholderList == <<"U+30EA","U+30B9","U+30C8">>

PlaceholderCommunity == <<"U+30B3","U+30DF","U+30E5","U+30CB","U+30C6","U+30A3">>

PlaceholderProfile == <<"U+30E6","U+30FC","U+30B6","U+30FC","U+30D7","U+30ED","U+30D5","U+30A3","U+30FC","U+30EB">>

\* /^https:\/\/x\.com\/[a-zA-Z0-9_]{1,15}$/.test(currentUrl)
IsProfileUrl(url) ==
    LET prefix == Origin \o <<"/">>
    IN  /\ StartsWith(url, prefix)
        /\ Len(url) - Len(prefix) >= 1
        /\ Len(url) - Len(prefix) <= 15
        /\ \A i \in (Len(prefix) + 1)..Len(url) : url[i] \in WordChars

\* what checkUrl computes from a URL, evaluated once for every URL of the
\* model: shouldRecordUrl, getTitleFromUrl and the three route tests
UrlFacts ==
    [u \in Urls |->
        [record    |-> shouldRecordUrl(u),
         title     |-> getTitleFromUrl(u),
         list      |-> Includes(u, PathLists),
         community |-> Includes(u, PathCommunities),
         profile   |-> IsProfileUrl(u)]]

\* the views of the page, named by the id of their column
Views == {"A", "B"}

\* the page with one column: its view
OneView == {"A"}

\* DEFAULT_CONFIG.columns[0]
SettingsColumnRec == [id |-> "settings", title |-> TitleSettingsJa, currentUrl |-> EmptyStr, type |-> "settings"]

\* the column record a view can start a session with
InitColumnStates ==
    { [title |-> TitleHomeJa, currentUrl |-> UHome],
      [title |-> PlaceholderCommunity, currentUrl |-> UComm],
      [title |-> PlaceholderList, currentUrl |-> UList],
      [title |-> PlaceholderProfile, currentUrl |-> UProf],
      [title |-> TitleMyList, currentUrl |-> UList],
      [title |-> TitleList, currentUrl |-> UList],
      [title |-> EmptyStr, currentUrl |-> UList] }

DefaultAutoRefresh == [enabled |-> FALSE, interval |-> 60]

DefaultDisplay ==
    [fontSize |-> 100, scrollButtonPosition |-> "left",
     scrollToTopVisibility |-> "always", scrollToBottomVisibility |-> "always",
     hideAds |-> TRUE, hideListHeaders |-> TRUE, hidePostMenuButton |-> TRUE,
     hideRecommendedUsers |-> FALSE, hideVerificationUpsell |-> FALSE,
     bottomBannerMode |-> "home-only"]

\* setTimeout(checkUrl, 100) of handleLoad
LoadCheckDelay == 1

\* setTimeout(() => tryGet...(), 500)
FirstAttemptDelay == 5

\* attempt * 300
RetryStep == 3

\* maxAttempts
MaxAttempts == 5

(***************************************************************************)
(* The rate-limit tracker of the background service worker                 *)
(* (background/index.ts): the classifier, the header reader and the merge. *)
(* A number | null of the source is a record: kind "null", "nan" or "num". *)
(***************************************************************************)
UpperSeq == <<"A","B","C","D","E","F","G","H","I","J","K","L","M",
              "N","O","P","Q","R","S","T","U","V","W","X","Y","Z">>

LowerSeq == <<"a","b","c","d","e","f","g","h","i","j","k","l","m",
              "n","o","p","q","r","s","t","u","v","w","x","y","z">>

ToLowerChar(c) ==
    IF c \in UpperChars THEN LowerSeq[CHOOSE i \in 1..Len(UpperSeq) : UpperSeq[i] = c] ELSE c

\* String.prototype.toLowerCase
ToLower(s) == [i \in 1..Len(s) |-> ToLowerChar(s[i])]

NullNum == [kind |-> "null", n |-> 0]

NaN == [kind |-> "nan", n |-> 0]

Num(n) == [kind |-> "num", n |-> n]

\* a === b for number | null
StrictEq(a, b) == a.kind # "nan" /\ a = b

RECURSIVE DecimalValue(_)
\* the value of a string of decimal digits
DecimalValue(s) ==
    IF s = << >> THEN 0
    ELSE 10 * DecimalValue(SubSeq(s, 1, Len(s) - 1))
         + (CHOOSE d \in 0..9 : ToString(d) = s[Len(s)])

\* Number(value) for a header value: white space is trimmed, the empty
\* string is 0, a string of decimal digits is its value; any other string
\* of the values modelled here is not a number
ToNumber(value) ==
    LET t == Trim(value)
    IN  IF \A i \in 1..Len(t) : t[i] \in DigitChars THEN Num(DecimalValue(t)) ELSE NaN

\* /source/i.test(url) for a pattern without metacharacters
TestIgnoreCase(source, url) == Includes(ToLower(url), ToLower(source))

NoCategory == "null"

RATE_LIMIT_PATTERNS ==
    << [category |-> "tweetPost",          patterns |-> << <<"C","r","e","a","t","e","T","w","e","e","t">>, <<"T","w","e","e","t","C","r","e","a","t","e">> >>],
       [category |-> "userTimeline",       patterns |-> << <<"U","s","e","r","T","w","e","e","t","s">>, <<"U","s","e","r","T","w","e","e","t","s","A","n","d","R","e","p","l","i","e","s">> >>],
       [category |-> "homeLatestTimeline", patterns |-> << <<"H","o","m","e","L","a","t","e","s","t","T","i","m","e","l","i","n","e">> >>],
       [category |-> "listTweets",         patterns |-> << <<"L","i","s","t","L","a","t","e","s","t","T","w","e","e","t","s","T","i","m","e","l","i","n","e">>, <<"L","i","s","t","T","w","e","e","t","s">> >>],
       [category |-> "searchLatest",       patterns |-> << <<"S","e","a","r","c","h","T","i","m","e","l","i","n","e">> >>],
       [category |-> "dmFetch",            patterns |-> << <<"D","m","I","n","b","o","x">>, <<"D","m","C","o","n","v","e","r","s","a","t","i","o","n">>, <<"D","m","H","i","s","t","o","r","y">> >>],
       [category |-> "accountSettings",    patterns |-> << <<"/","a","c","c","o","u","n","t","/","s","e","t","t","i","n","g","s",".","j","s","o","n">> >>],
       [category |-> "badgeCount",         patterns |-> << <<"b","a","d","g","e","_","c","o","u","n","t","/","b","a","d","g","e","_","c","o","u","n","t",".","j","s","o","n">> >> ] >>

RateLimitCategories == {RATE_LIMIT_PATTERNS[i].category : i \in 1..Len(RATE_LIMIT_PATTERNS)}

NoRateLimitInfo == [limit |-> NullNum, remaining |-> NullNum, resetAt |-> NullNum, lastUpdated |-> NullNum]

DEFAULT_RATE_LIMIT_STATE == [c \in RateLimitCategories |-> NoRateLimitInfo]

\* the rule patterns.some((pattern) => pattern.test(url)) holds of
RuleMatches(rule, url) == \E j \in 1..Len(rule.patterns) : TestIgnoreCase(rule.patterns[j], url)

detectRateLimitCategoryLastMatch(url) ==
    LET hits == {i \in 1..Len(RATE_LIMIT_PATTERNS) : RuleMatches(RATE_LIMIT_PATTERNS[i], url)}
    IN  IF hits = {} THEN NoCategory
        ELSE RATE_LIMIT_PATTERNS[CHOOSE i \in hits : \A j \in hits : j <= i].category

\* the classifier with patterns that tell capital letters from small ones
detectRateLimitCategoryCaseSensitive(url) ==
    LET hits == {i \in 1..Len(RATE_LIMIT_PATTERNS) :
                    \E j \in 1..Len(RATE_LIMIT_PATTERNS[i].patterns) :
                       Includes(url, RATE_LIMIT_PATTERNS[i].patterns[j])}
    IN  IF hits = {} THEN NoCategory
        ELSE RATE_LIMIT_PATTERNS[CHOOSE i \in hits : \A j \in hits : i <= j].category

\* RATE_LIMIT_PATTERNS.find(...): the first entry with a matching pattern
detectRateLimitCategory(url) ==
    LET hits == {i \in 1..Len(RATE_LIMIT_PATTERNS) : RuleMatches(RATE_LIMIT_PATTERNS[i], url)}
    IN  IF hits = {} THEN NoCategory
        ELSE RATE_LIMIT_PATTERNS[CHOOSE i \in hits : \A j \in hits : i <= j].category

HeaderLimit == <<"x","-","r","a","t","e","-","l","i","m","i","t","-","l","i","m","i","t">>

HeaderRemaining == <<"x","-","r","a","t","e","-","l","i","m","i","t","-","r","e","m","a","i","n","i","n","g">>

HeaderReset == <<"x","-","r","a","t","e","-","l","i","m","i","t","-","r","e","s","e","t">>

\* details.responseHeaders: has is FALSE for undefined
NoHeaders == [has |-> FALSE, list |-> << >>]

getHeaderValueZeroAbsent(headers, name) ==
    LET found == {i \in 1..Len(headers.list) : ToLower(headers.list[i].name) = name}
    IN  IF ~headers.has \/ found = {} THEN NullNum
        ELSE LET value  == headers.list[CHOOSE i \in found : \A j \in found : i <= j].value
                 parsed == ToNumber(value)
             IN  IF ~Truthy(value) \/ parsed.kind = "nan" \/ parsed = Num(0) THEN NullNum ELSE parsed

\* getHeaderValue: the number in the first header called name, null for no
\* headers, no such header, an empty value or a value that is not a number
getHeaderValue(headers, name) ==
    LET found == {i \in 1..Len(headers.list) : ToLower(headers.list[i].name) = name}
    IN  IF ~headers.has \/ found = {} THEN NullNum
        ELSE LET value  == headers.list[CHOOSE i \in found : \A j \in found : i <= j].value
                 parsed == ToNumber(value)
             IN  IF ~Truthy(value) \/ parsed.kind = "nan" THEN NullNum ELSE parsed

\* a ?? b
Coalesce(a, b) == IF a.kind = "null" THEN b ELSE a

\* limit === null && remaining === null && resetAt === null
AllNull(limit, remaining, resetAt) ==
    limit = NullNum /\ remaining = NullNum /\ resetAt = NullNum

ListenerOutcomeAlwaysStamps(state, category, limit, remaining, resetAt, time) ==
    IF category = NoCategory THEN [state |-> state, wrote |-> FALSE]
    ELSE LET previous == state[category]
         IN  [state |-> [state EXCEPT ![category] =
                           [limit |-> Coalesce(limit, previous.limit),
                            remaining |-> Coalesce(remaining, previous.remaining),
                            resetAt |-> Coalesce(resetAt, previous.resetAt),
                            lastUpdated |-> Num(time)]],
              wrote |-> TRUE]

\* the listener without the comparison of the merged values with the
\* record it holds
ListenerOutcomeNoSuppression(state, category, limit, remaining, resetAt, time) ==
    IF category = NoCategory THEN [state |-> state, wrote |-> FALSE]
    ELSE IF AllNull(limit, remaining, resetAt) THEN [state |-> state, wrote |-> FALSE]
    ELSE LET previous == state[category]
         IN  [state |-> [state EXCEPT ![category] =
                           [limit |-> Coalesce(limit, previous.limit),
                            remaining |-> Coalesce(remaining, previous.remaining),
                            resetAt |-> Coalesce(resetAt, previous.resetAt),
                            lastUpdated |-> Num(time)]],
              wrote |-> TRUE]

\* the listener that keeps the lastUpdated of the record it replaces
ListenerOutcomeKeepsStamp(state, category, limit, remaining, resetAt, time) ==
    IF category = NoCategory THEN [state |-> state, wrote |-> FALSE]
    ELSE IF AllNull(limit, remaining, resetAt) THEN [state |-> state, wrote |-> FALSE]
    ELSE LET previous     == state[category]
             newLimit     == Coalesce(limit, previous.limit)
             newRemaining == Coalesce(remaining, previous.remaining)
             newResetAt   == Coalesce(resetAt, previous.resetAt)
         IN  IF /\ StrictEq(previous.limit, newLimit)
                /\ StrictEq(previous.remaining, newRemaining)
                /\ StrictEq(previous.resetAt, newResetAt)
             THEN [state |-> state, wrote |-> FALSE]
             ELSE [state |-> [state EXCEPT ![category] =
                                [limit |-> newLimit, remaining |-> newRemaining,
                                 resetAt |-> newResetAt, lastUpdated |-> previous.lastUpdated]],
                   wrote |-> TRUE]

\* the listener that stores the three headers as it read them, without
\* the values of the record it holds
ListenerOutcomeNoMerge(state, category, limit, remaining, resetAt, time) ==
    IF category = NoCategory THEN [state |-> state, wrote |-> FALSE]
    ELSE IF AllNull(limit, remaining, resetAt) THEN [state |-> state, wrote |-> FALSE]
    ELSE LET previous == state[category]
         IN  IF /\ StrictEq(previous.limit, limit)
                /\ StrictEq(previous.remaining, remaining)
                /\ StrictEq(previous.resetAt, resetAt)
             THEN [state |-> state, wrote |-> FALSE]
             ELSE [state |-> [state EXCEPT ![category] =
                                [limit |-> limit, remaining |-> remaining,
                                 resetAt |-> resetAt, lastUpdated |-> Num(time)]],
                   wrote |-> TRUE]

\* What the listener does with a response of category category whose three
\* headers were read as limit, remaining and resetAt, at time time: the new
\* map and whether chrome.storage.local.set is called with it.
ListenerOutcome(state, category, limit, remaining, resetAt, time) ==
    IF category = NoCategory THEN [state |-> state, wrote |-> FALSE]
    ELSE IF AllNull(limit, remaining, resetAt) THEN [state |-> state, wrote |-> FALSE]
    ELSE LET previous     == state[category]
             newLimit     == Coalesce(limit, previous.limit)
             newRemaining == Coalesce(remaining, previous.remaining)
             newResetAt   == Coalesce(resetAt, previous.resetAt)
         IN  IF /\ StrictEq(previous.limit, newLimit)
                /\ StrictEq(previous.remaining, newRemaining)
                /\ StrictEq(previous.resetAt, newResetAt)
             THEN [state |-> state, wrote |-> FALSE]
             ELSE [state |-> [state EXCEPT ![category] =
                                [limit |-> newLimit, remaining |-> newRemaining,
                                 resetAt |-> newResetAt, lastUpdated |-> Num(time)]],
                   wrote |-> TRUE]

(***************************************************************************)
(* The responses the worker is shown.                                      *)
(***************************************************************************)
UrlHomeLatest == <<"h","t","t","p","s",":","/","/","x",".","c","o","m","/","i","/","a","p","i","/","g","r","a","p","h","q","l","/","q","/","H","o","m","e","L","a","t","e","s","t","T","i","m","e","l","i","n","e">>

UrlUserTweets == <<"h","t","t","p","s",":","/","/","x",".","c","o","m","/","i","/","a","p","i","/","g","r","a","p","h","q","l","/","q","/","U","s","e","r","T","w","e","e","t","s">>

\* a search for the words CreateTweet HomeLatestTimeline
UrlSearchWords == <<"h","t","t","p","s",":","/","/","x",".","c","o","m","/","i","/","a","p","i","/","g","r","a","p","h","q","l","/","q","/","S","e","a","r","c","h","T","i","m","e","l","i","n","e","?","q","=","C","r","e","a","t","e","T","w","e","e","t","+","H","o","m","e","L","a","t","e","s","t","T","i","m","e","l","i","n","e">>

UrlClientEvent == <<"h","t","t","p","s",":","/","/","x",".","c","o","m","/","i","/","a","p","i","/","1",".","1","/","j","o","t","/","c","l","i","e","n","t","_","e","v","e","n","t",".","j","s","o","n">>

\* a search for the word HomeLatestTimeline
UrlSearchHome == <<"h","t","t","p","s",":","/","/","x",".","c","o","m","/","i","/","a","p","i","/","g","r","a","p","h","q","l","/","q","/","S","e","a","r","c","h","T","i","m","e","l","i","n","e","?","q","=","H","o","m","e","L","a","t","e","s","t","T","i","m","e","l","i","n","e">>

\* the home timeline in small letters
UrlHomeSmall == <<"h","t","t","p","s",":","/","/","x",".","c","o","m","/","i","/","a","p","i","/","g","r","a","p","h","q","l","/","q","/","h","o","m","e","l","a","t","e","s","t","t","i","m","e","l","i","n","e">>

RequestUrls == {UrlHomeLatest, UrlUserTweets, UrlSearchWords, UrlSearchHome, UrlClientEvent, UrlHomeSmall}

Absent == <<"<absent>">>

LimitTexts == {Absent, <<"5">>}

RemainingTexts == {Absent, <<"0">>, <<"5">>}

ResetTexts == {Absent, <<"5">>}

NameLimitMixed == <<"X","-","R","a","t","e","-","L","i","m","i","t","-","L","i","m","i","t">>

NameRemainingMixed == <<"X","-","R","a","t","e","-","L","i","m","i","t","-","R","e","m","a","i","n","i","n","g">>

NameResetMixed == <<"X","-","R","a","t","e","-","L","i","m","i","t","-","R","e","s","e","t">>

HeaderDate == [name |-> <<"d","a","t","e">>, value |-> <<"M","o","n">>]

Header(name, value) == IF value = Absent THEN << >> ELSE << [name |-> name, value |-> value] >>

\* response headers with the three quota headers of the given texts
ResponseOf(limit, remaining, resetAt) ==
    [has |-> TRUE,
     list |-> <<HeaderDate>> \o Header(HeaderLimit, limit)
              \o Header(HeaderRemaining, remaining) \o Header(HeaderReset, resetAt)]

Responses ==
    {ResponseOf(l, r, t) : l \in LimitTexts, r \in RemainingTexts, t \in ResetTexts}
    \cup { NoHeaders,
           [has |-> TRUE, list |-> << >>],
           \* values that are empty or not numbers
           ResponseOf(<< >>, << >>, << >>),
           ResponseOf(<<"a","b","c">>, << >>, <<"n","/","a">>),
           ResponseOf(<<"a","b","c">>, <<"5">>, Absent),
           \* header names in another case
           [has |-> TRUE, list |-> << [name |-> NameLimitMixed, value |-> <<"5">>],
                                      [name |-> NameRemainingMixed, value |-> <<"0">>],
                                      [name |-> NameResetMixed, value |-> <<"5">>] >>],
           \* a header given twice: the first one is read
           [has |-> TRUE, list |-> << [name |-> HeaderRemaining, value |-> << >>],
                                      [name |-> HeaderRemaining, value |-> <<"5">>] >>] }

\* nothing stored under RATE_LIMIT_STORAGE_KEY
NoRateLimits == [has |-> FALSE, map |-> DEFAULT_RATE_LIMIT_STATE]

NoRequest ==
    [seen |-> FALSE, url |-> EmptyStr, category |-> NoCategory, headers |-> NoHeaders, wrote |-> FALSE]

(***************************************************************************)
(* The content filter engine (applyFilters, matchesFilter).  A regular     *)
(* expression is modelled for the patterns made of literal characters,     *)
(* groups and alternatives: compiling gives the finite set of words the    *)
(* pattern matches, or fails on an unbalanced parenthesis.                 *)
(***************************************************************************)
RECURSIVE ParseAlternatives(_, _)

RECURSIVE ParseSequence(_, _, _)

\* the alternatives of pattern s from position i on, up to the end or an
\* unmatched ")": whether they are well formed, their words, where they end
ParseAlternatives(s, i) ==
    LET first == ParseSequence(s, i, {<< >>})
    IN  IF first.ok /\ first.next <= Len(s) /\ s[first.next] = "|"
        THEN LET rest == ParseAlternatives(s, first.next + 1)
             IN  [ok |-> rest.ok, words |-> first.words \cup rest.words, next |-> rest.next]
        ELSE first

\* one alternative: literal characters and groups, appended to the words acc
ParseSequence(s, i, acc) ==
    IF i > Len(s) \/ s[i] \in {"|", ")"}
    THEN [ok |-> TRUE, words |-> acc, next |-> i]
    ELSE IF s[i] = "("
    THEN LET group == ParseAlternatives(s, i + 1)
         IN  IF group.ok /\ group.next <= Len(s) /\ s[group.next] = ")"
             THEN ParseSequence(s, group.next + 1, {a \o b : a \in acc, b \in group.words})
             ELSE [ok |-> FALSE, words |-> {}, next |-> i]
    ELSE ParseSequence(s, i + 1, {a \o <<s[i]>> : a \in acc})

\* new RegExp(pattern): ok is FALSE when the constructor throws
RegExpOf(pattern) ==
    LET parsed == ParseAlternatives(pattern, 1)
    IN  IF parsed.ok /\ parsed.next = Len(pattern) + 1
        THEN [ok |-> TRUE, words |-> parsed.words]
        ELSE [ok |-> FALSE, words |-> {}]

\* regex.test(text)
RegExpTest(regex, text) == \E w \in regex.words : Includes(text, w)

\* href.replace(/^\//, "").split("/")[0]
ScreenNameOfHref(href) ==
    LET rest  == IF StartsWith(href, <<"/">>) THEN SubSeq(href, 2, Len(href)) ELSE href
        slash == IndexOf(rest, "/")
    IN  IF slash = 0 THEN rest ELSE SubSeq(rest, 1, slash - 1)

\* matchesFilter without the try block: the error of new RegExp leaves it
matchesFilterUncaught(post, filter, regexOf) ==
    IF Truthy(filter.textPattern) /\ ~regexOf[filter.textPattern].ok
          /\ (Truthy(filter.screenName) =>
                 LET href == IF post.socialContext THEN post.firstLink ELSE post.userNameLink
                 IN  href # Null /\ ToLower(ScreenNameOfHref(href)) = ToLower(filter.screenName))
    THEN [result |-> "throw", errors |-> 0]
    ELSE [result |-> IF /\ Truthy(filter.textPattern) => (post.tweetText # Null /\ RegExpTest(regexOf[filter.textPattern], post.tweetText))
                        /\ filter.isRetweet # "undefined" => (filter.isRetweet = "true") = post.socialContext
                        /\ filter.hasMedia # "undefined" => (filter.hasMedia = "true") = post.media
                        /\ Truthy(filter.screenName) =>
                              LET href == IF post.socialContext THEN post.firstLink ELSE post.userNameLink
                              IN  href # Null /\ ToLower(ScreenNameOfHref(href)) = ToLower(filter.screenName)
                     THEN "match" ELSE "nomatch",
          errors |-> 0]

\* matchesFilter that reads the account from the name block of every
\* item, shared or not
matchesFilterNameBlock(post, filter, regexOf) ==
    LET href == post.userNameLink
    IN  IF Truthy(filter.screenName)
           /\ (href = Null \/ ToLower(ScreenNameOfHref(href)) # ToLower(filter.screenName))
        THEN [result |-> "nomatch", errors |-> 0]
        ELSE IF Truthy(filter.textPattern) /\ ~regexOf[filter.textPattern].ok
        THEN [result |-> "nomatch", errors |-> 1]
        ELSE IF Truthy(filter.textPattern)
                /\ (post.tweetText = Null \/ ~RegExpTest(regexOf[filter.textPattern], post.tweetText))
        THEN [result |-> "nomatch", errors |-> 0]
        ELSE IF filter.isRetweet # "undefined" /\ (filter.isRetweet = "true") # post.socialContext
        THEN [result |-> "nomatch", errors |-> 0]
        ELSE IF filter.hasMedia # "undefined" /\ (filter.hasMedia = "true") # post.media
        THEN [result |-> "nomatch", errors |-> 0]
        ELSE [result |-> "match", errors |-> 0]

\* matchesFilter(post, filter); regexOf gives new RegExp for the patterns of
\* the rules.  The predicates are checked in the order screenName,
\* textPattern, isRetweet, hasMedia; the result is "match" or "nomatch"
\* with the number of errors logged ("throw": an error left the function).
matchesFilter(post, filter, regexOf) ==
    LET href == IF post.socialContext THEN post.firstLink ELSE post.userNameLink
    IN  IF Truthy(filter.screenName)
           /\ (href = Null \/ ToLower(ScreenNameOfHref(href)) # ToLower(filter.screenName))
        THEN [result |-> "nomatch", errors |-> 0]
        ELSE IF Truthy(filter.textPattern) /\ ~regexOf[filter.textPattern].ok
        THEN [result |-> "nomatch", errors |-> 1]
        ELSE IF Truthy(filter.textPattern)
                /\ (post.tweetText = Null \/ ~RegExpTest(regexOf[filter.textPattern], post.tweetText))
        THEN [result |-> "nomatch", errors |-> 0]
        ELSE IF filter.isRetweet # "undefined" /\ (filter.isRetweet = "true") # post.socialContext
        THEN [result |-> "nomatch", errors |-> 0]
        ELSE IF filter.hasMedia # "undefined" /\ (filter.hasMedia = "true") # post.media
        THEN [result |-> "nomatch", errors |-> 0]
        ELSE [result |-> "match", errors |-> 0]

RECURSIVE SomeFilterMatches(_, _, _, _)

\* activeFilters.some(...) from rule k on: "hide" with the rule that
\* matched, "keep", or "throw"; and the errors logged on the way
SomeFilterMatches(post, active, k, regexOf) ==
    IF k > Len(active) THEN [result |-> "keep", by |-> "", errors |-> 0]
    ELSE LET m == matchesFilter(post, active[k], regexOf)
         IN  IF m.result = "match" THEN [result |-> "hide", by |-> active[k].id, errors |-> m.errors]
             ELSE IF m.result = "throw" THEN [result |-> "throw", by |-> "", errors |-> m.errors]
             ELSE LET rest == SomeFilterMatches(post, active, k + 1, regexOf)
                  IN  [rest EXCEPT !.errors = @ + m.errors]

RECURSIVE filterPostsMarksHidden(_, _, _, _)

\* filterPosts that marks the posts it hides and no others
filterPostsMarksHidden(ps, active, i, regexOf) ==
    IF i > Len(ps) THEN [posts |-> ps, errors |-> 0, threw |-> FALSE]
    ELSE IF ps[i].processed THEN filterPostsMarksHidden(ps, active, i + 1, regexOf)
    ELSE LET some == SomeFilterMatches(ps[i], active, 1, regexOf)
         IN  IF some.result = "throw"
             THEN [posts |-> ps, errors |-> some.errors, threw |-> TRUE]
             ELSE LET rest == filterPostsMarksHidden(
                                [ps EXCEPT ![i] = [@ EXCEPT !.processed = (some.result = "hide"),
                                                            !.display = IF some.result = "hide" THEN "none" ELSE @,
                                                            !.hiddenBy = IF some.result = "hide" THEN some.by ELSE @]],
                                active, i + 1, regexOf)
                  IN  [rest EXCEPT !.errors = @ + some.errors]

RECURSIVE filterPosts(_, _, _, _)

\* filterPosts from post i on: the posts after the pass, the errors logged,
\* and whether an error ended the pass
filterPosts(ps, active, i, regexOf) ==
    IF i > Len(ps) THEN [posts |-> ps, errors |-> 0, threw |-> FALSE]
    ELSE IF ps[i].processed THEN filterPosts(ps, active, i + 1, regexOf)
    ELSE LET some == SomeFilterMatches(ps[i], active, 1, regexOf)
         IN  IF some.result = "throw"
             THEN [posts |-> ps, errors |-> some.errors, threw |-> TRUE]
             ELSE LET rest == filterPosts(
                                [ps EXCEPT ![i] = [@ EXCEPT !.processed = TRUE,
                                                            !.display = IF some.result = "hide" THEN "none" ELSE @,
                                                            !.hiddenBy = IF some.result = "hide" THEN some.by ELSE @]],
                                active, i + 1, regexOf)
                  IN  [rest EXCEPT !.errors = @ + some.errors]

\* filters.filter((f) => f.enabled)
EnabledFilters(fs) == SelectSeq(fs, LAMBDA f : f.enabled)

(***************************************************************************)
(* The rules and the posts of the model.                                   *)
(***************************************************************************)
Rule(id, screenName, textPattern, isRetweet, hasMedia) ==
    [id |-> id, name |-> id, enabled |-> TRUE, screenName |-> screenName,
     textPattern |-> textPattern, isRetweet |-> isRetweet, hasMedia |-> hasMedia]

PatternSpamOrAd == <<"(","s","p","a","m","|","a","d",")">>

PatternUnbalanced == <<"(","(">>

PatternAd == <<"a","d">>

RuleSpam == Rule("spam", Null, PatternSpamOrAd, "undefined", "undefined")

RuleBroken == Rule("broken", Null, PatternUnbalanced, "undefined", "undefined")

\* a rule whose pattern is the empty string
RuleEmpty == Rule("empty", Null, EmptyStr, "undefined", "undefined")

RuleRetweets == Rule("retweets", Null, Null, "true", "undefined")

RuleJackAd == Rule("jack", <<"J","a","c","k">>, PatternAd, "undefined", "false")

Patterns == {PatternSpamOrAd, PatternUnbalanced, PatternAd, EmptyStr}

FilterLists ==
    { <<RuleSpam>>, <<RuleBroken>>, <<RuleEmpty>>, <<RuleRetweets>>, <<RuleJackAd>>,
      <<RuleBroken, RuleSpam>>, <<RuleSpam, RuleBroken>>, <<RuleBroken, RuleRetweets>>,
      <<RuleJackAd, RuleBroken>> }

Post(tweetText, socialContext, media, firstLink, userNameLink) ==
    [tweetText |-> tweetText, socialContext |-> socialContext, media |-> media,
     firstLink |-> firstLink, userNameLink |-> userNameLink,
     processed |-> FALSE, display |-> "", hiddenBy |-> ""]

PostSpam == Post(<<"b","u","y"," ","s","p","a","m">>, FALSE, FALSE, <<"/","a","l","i","c","e">>, <<"/","a","l","i","c","e">>)

PostAdRetweet == Post(<<"a","n"," ","a","d">>, TRUE, FALSE, <<"/","b","o","b">>, <<"/","j","a","c","k">>)

PostPhoto == Post(Null, FALSE, TRUE, <<"/","j","a","c","k">>, <<"/","j","a","c","k">>)

PostHello == Post(<<"h","e","l","l","o">>, FALSE, FALSE, <<"/","J","A","C","K","/","s","t","a","t","u","s","/","1">>, <<"/","J","A","C","K","/","s","t","a","t","u","s","/","1">>)

PostJackRead == Post(<<"r","e","a","d">>, FALSE, FALSE, <<"/","j","a","c","k">>, <<"/","j","a","c","k">>)

\* jack shares a post of bob
PostJackRetweet == Post(<<"s","a","d">>, TRUE, FALSE, <<"/","J","a","c","k">>, <<"/","b","o","b">>)

\* an item in which no link is found
PostNoLink == Post(<<"a","d">>, FALSE, FALSE, Null, Null)

NewPosts == {PostSpam, PostAdRetweet, PostPhoto, PostHello, PostJackRead, PostJackRetweet, PostNoLink}

\* load: the pass is the first one of a document just loaded
NoPass == [ran |-> FALSE, load |-> FALSE, fresh |-> {}, errors |-> 0, threw |-> FALSE]

NoFile == [has |-> FALSE]

NoImport == [ran |-> FALSE]

\* the page has not called chrome.storage.local
NoStorage == [op |-> "none", rejected |-> FALSE, threw |-> FALSE, config |-> Null]

\* the route functions have not been called
NoOutcome == [ran |-> FALSE, record |-> FALSE, type |-> "unknown"]

VARIABLES
    loc,                 \* view -> location.href of the embedded view
    dom,                 \* view -> the landmark texts the step just taken read (NoDoc: none;
                         \* DeniedDoc: reading the location threw)
    pendingSrc,          \* view -> URL the iframe's src attribute is loading, or Null
    lastUrlRef,          \* view -> lastUrlRef.current
    lastRecordedUrlRef,  \* view -> lastRecordedUrlRef.current
    resolvedNamesRef,    \* view -> (URL -> resolved name or Null)
    timers,              \* view -> the bag of pending setTimeout callbacks
    lastCall,            \* view -> the onUrlChange call of the step just taken (NoCall: none)
    stay,                \* view -> the current stay of the view at its location: calls, the
                         \* onUrlChange calls for the location so far (0, 1, 2 = more); cold,
                         \* the view arrived with no cached and no qualifying persisted name;
                         \* named, every landmark read since found the text TextMyList
    navCount,            \* number of navigations made by the user so far
    extracted,           \* view -> (URL -> the name a retry chain delivered last for it, or Null)
    routeInput,          \* the string the route functions were called with last
    routeOutcome,        \* what shouldRecordUrl and getColumnTypeFromUrl returned for it
    columns,             \* store: the column list
    autoRefresh,         \* store: auto refresh settings
    filters,             \* store: filter rules
    display,             \* store: display settings
    currentColumnIndex,  \* store: selected column
    storedConfig,        \* chrome.storage.local[STORAGE_KEY], or NoConfig
    rateLimitState,      \* worker: the module-level rateLimitState (category -> record)
    rateLimitStored,     \* chrome.storage.local[RATE_LIMIT_STORAGE_KEY] (NoRateLimits: nothing)
    now,                 \* the clock Date.now() reads
    lastRequest,         \* worker: the response the step just taken handled (NoRequest: none)
    rateLimits,          \* store: rateLimits, the map the page shows
    changes,             \* the newValue of each chrome.storage.onChanged event of
                         \* RATE_LIMIT_STORAGE_KEY the page has not been called with yet
    cleared,             \* handleClearSettings has run and the worker has handled no
    loadPending,         \* the answer to the read loadRateLimits() made, until its promise is resolved (NoLoad: none)
                         \* categorised response with a quota since
    posts,               \* the article elements of the embedded document, in document order
    activeFilters,       \* the enabled rules applyFilters captured when the document loaded
    observing,           \* a MutationObserver of applyFilters watches the document
    loaded,              \* the load handler has run for the embedded document
    lastPass,            \* the filterPosts pass of the step just taken (NoPass: none)
    exportedFile,        \* the file handleExport downloaded last (NoFile: none)
    lastImport,          \* the file handleFileChange read in the step just taken (NoImport: none)
    faulty,              \* chrome.storage.local of this profile may reject a call
    isLoading,           \* isLoading of the store
    lastStorage,         \* the call of chrome.storage.local the page made in the step just taken (NoStorage: none)
    lastColumnOp,        \* store: the column action called in the step just taken (NoColumnOp: none)
    cells,               \* the cellInnerDiv elements of a profile document, in document order
    sectionWatch,        \* hideRecommendedUsersSection has run for the document and its observer watches it
    lastScan             \* the hideCells pass of the step just taken (NoScan: none)

navVars == <<loc, dom, pendingSrc, lastUrlRef, lastRecordedUrlRef, resolvedNamesRef,
             timers, lastCall, stay, navCount, extracted, routeInput, routeOutcome>>

storeVars == <<columns, autoRefresh, filters, display, currentColumnIndex, storedConfig>>

rateVars == <<rateLimitState, rateLimitStored, now, lastRequest, rateLimits, changes, cleared, loadPending>>

filterVars == <<posts, activeFilters, observing, loaded, lastPass>>

configVars == <<exportedFile, lastImport, faulty, isLoading, lastStorage>>

sectionVars == <<cells, sectionWatch, lastScan>>

vars == <<navVars, storeVars, rateVars, filterVars, configVars, lastColumnOp, sectionVars>>

\* no column action of the store was called
NoColumnOp == [op |-> "none", id |-> "", url |-> EmptyStr, title |-> EmptyStr, from |-> -1, to |-> -1]

\* updateColumnUrl(id, url, title)
UrlOp(id, url, title) == [NoColumnOp EXCEPT !.op = "updateColumnUrl", !.id = id, !.url = url, !.title = title]

\* no pass of hideCells ran
NoScan == [ran |-> FALSE, scanned |-> {}]

\* no profile document with the section watch is open
SectionQuiet ==
    /\ cells = << >>
    /\ sectionWatch = FALSE
    /\ lastScan = NoScan

(***************************************************************************)
(* The store (store/index.ts) as far as the watcher uses it.               *)
(***************************************************************************)
\* GenericColumn passes its column's id to the hook; the view is named by it
ColumnIdx(cols, id) ==
    IF \E i \in 1..Len(cols) : cols[i].id = id
    THEN CHOOSE i \in 1..Len(cols) : cols[i].id = id /\ \A j \in 1..(i - 1) : cols[j].id # id
    ELSE 0

\* columns.find((c) => c.id === columnId), as the fields checkUrl reads
FindColumn(cols, id) ==
    LET i == ColumnIdx(cols, id)
    IN  IF i = 0
        THEN [has |-> FALSE, title |-> EmptyStr, currentUrl |-> EmptyStr]
        ELSE [has |-> TRUE, title |-> cols[i].title, currentUrl |-> cols[i].currentUrl]

\* a variant that maps over the columns without comparing ids
updateColumnUrlAllColumns(cols, columnId, url, title) ==
    [i \in 1..Len(cols) |->
        IF cols[i].type = "column"
        THEN [cols[i] EXCEPT !.currentUrl = url,
                             !.title = IF Truthy(title) THEN title ELSE @]
        ELSE cols[i]]

\* a variant that takes the title it is given, empty or not
updateColumnUrlAnyTitle(cols, columnId, url, title) ==
    [i \in 1..Len(cols) |->
        IF cols[i].id = columnId
        THEN [cols[i] EXCEPT !.currentUrl = url, !.title = title]
        ELSE cols[i]]

updateColumnUrl(cols, columnId, url, title) ==
    [i \in 1..Len(cols) |->
        IF cols[i].id = columnId
        THEN [cols[i] EXCEPT !.currentUrl = url,
                             !.title = IF Truthy(title) THEN title ELSE @]
        ELSE cols[i]]

\* whether a call of chrome.storage.local is rejected
Rejections == IF faulty THEN {FALSE, TRUE} ELSE {FALSE}

\* a variant without the try of saveToStorage: the rejection saveConfig
\* throws again leaves the store action
saveToStorageUncaught(stored, config, rejected) ==
    [stored |-> IF rejected THEN stored ELSE config,
     call   |-> [op |-> "save", rejected |-> rejected, threw |-> rejected, config |-> config]]

\* saveToStorage(): saveConfig(config) writes config under STORAGE_KEY, logs
\* a rejection and throws it again; saveToStorage catches it
saveToStorage(stored, config, rejected) ==
    [stored |-> IF rejected THEN stored ELSE config,
     call   |-> [op |-> "save", rejected |-> rejected, threw |-> FALSE, config |-> config]]

\* a store action ends with get().saveToStorage()
Save(config) ==
    \E rejected \in Rejections :
       \E o \in {saveToStorage(storedConfig, config, rejected)} :
          /\ storedConfig' = o.stored
          /\ lastStorage' = o.call

\* the AppConfig that saveToStorage writes
ConfigOf(cols, ar, fs, disp, idx) ==
    [columns |-> cols, autoRefresh |-> ar, filters |-> fs, display |-> disp, currentColumnIndex |-> idx]

(***************************************************************************)
(* checkUrl (hooks/useIframeUrlSync.ts).  CheckUrlOutcome computes what    *)
(* one run of checkUrl does: the new guards, the new memory cache, the     *)
(* timer it schedules and the onUrlChange call it makes.  The actions bind *)
(* what a handler reads (the column record, the facts of the URL, the      *)
(* extracted name) once, like the constants of the source.                 *)
(***************************************************************************)
\* tier: the branch that made the call ("memory", "persisted", "dom",
\* "fallback", or "direct" for a route that needs no resolution)
NoCall == [made |-> FALSE, url |-> EmptyStr, title |-> EmptyStr, tier |-> "none"]

Call(url, title, tier) == [made |-> TRUE, url |-> url, title |-> title, tier |-> tier]

\* a pending retry-chain callback, setTimeout(() => tryGet...Name(attempt), delay)
\* for url; due is the time from the trigger that started the chain to the
\* moment the callback is due
RetryTimer(kind, url, title, attempt, delay, since) ==
    [kind |-> kind, url |-> url, title |-> title, attempt |-> attempt,
     delay |-> delay, due |-> since + delay]

\* a pending setTimeout(checkUrl, 100) of handleLoad.  The effect is re-run
\* with every new columns array, so the callback is taken to read the
\* columns of the store.
CheckTimer ==
    [kind |-> "check", url |-> EmptyStr, title |-> EmptyStr, attempt |-> 0,
     delay |-> LoadCheckDelay, due |-> LoadCheckDelay]

ResolveRouteNoCache(v, col, currentUrl, title, kind, placeholder) ==
    IF col.has /\ col.title # placeholder /\ col.currentUrl = currentUrl
    THEN [cache |-> [resolvedNamesRef[v] EXCEPT ![currentUrl] = col.title],
          sched |-> {},
          call  |-> Call(currentUrl, col.title, "persisted")]
    ELSE [cache |-> resolvedNamesRef[v],
          sched |-> {RetryTimer(kind, currentUrl, title, 1, FirstAttemptDelay, 0)},
          call  |-> NoCall]

ResolveRoutePersistedFirst(v, col, currentUrl, title, kind, placeholder) ==
    IF col.has /\ col.title # placeholder /\ col.currentUrl = currentUrl
    THEN [cache |-> [resolvedNamesRef[v] EXCEPT ![currentUrl] = col.title],
          sched |-> {},
          call  |-> Call(currentUrl, col.title, "persisted")]
    ELSE IF Truthy(resolvedNamesRef[v][currentUrl])
    THEN [cache |-> resolvedNamesRef[v], sched |-> {},
          call  |-> Call(currentUrl, resolvedNamesRef[v][currentUrl], "memory")]
    ELSE [cache |-> resolvedNamesRef[v],
          sched |-> {RetryTimer(kind, currentUrl, title, 1, FirstAttemptDelay, 0)},
          call  |-> NoCall]

\* the three tiers checkUrl runs for one resolution route; the document of
\* a view whose location could be read is never null
ResolveRoute(v, col, currentUrl, title, kind, placeholder) ==
    IF Truthy(resolvedNamesRef[v][currentUrl])
    THEN [cache |-> resolvedNamesRef[v], sched |-> {},
          call  |-> Call(currentUrl, resolvedNamesRef[v][currentUrl], "memory")]
    ELSE IF col.has /\ col.title # placeholder /\ col.currentUrl = currentUrl
    THEN [cache |-> [resolvedNamesRef[v] EXCEPT ![currentUrl] = col.title],
          sched |-> {},
          call  |-> Call(currentUrl, col.title, "persisted")]
    ELSE [cache |-> resolvedNamesRef[v],
          sched |-> {RetryTimer(kind, currentUrl, title, 1, FirstAttemptDelay, 0)},
          call  |-> NoCall]

\* the branch of checkUrl for a whitelisted URL that is not the one recorded
\* last; f holds the facts of currentUrl
RecordUrl(v, col, currentUrl, f) ==
    IF f.list
    THEN ResolveRoute(v, col, currentUrl, f.title, "list", PlaceholderList)
    ELSE IF f.community
    THEN ResolveRoute(v, col, currentUrl, f.title, "community", PlaceholderCommunity)
    ELSE IF f.profile
    THEN ResolveRoute(v, col, currentUrl, f.title, "profile", PlaceholderProfile)
    ELSE [cache |-> resolvedNamesRef[v], sched |-> {},
          call  |-> Call(currentUrl, f.title, "direct")]

PassesWhitelistSameOrigin(url, f) == StartsWith(url, Origin)

\* if (shouldRecordUrl(currentUrl)); f holds the facts of url
PassesWhitelist(url, f) == f.record

\* the outcome that changes nothing
Keep(v) ==
    [seen |-> lastUrlRef[v], recorded |-> lastRecordedUrlRef[v],
     cache |-> resolvedNamesRef[v], sched |-> {}, call |-> NoCall]

\* checkUrl that updates its guards before it reads the location
CheckUrlOutcomeGuardsFirst(v, col, acc, f) ==
    IF acc = "denied" THEN [Keep(v) EXCEPT !.seen = loc[v], !.recorded = loc[v]]
    ELSE IF ~Truthy(loc[v]) \/ loc[v] = lastUrlRef[v] THEN Keep(v)
    ELSE IF ~PassesWhitelist(loc[v], f) THEN [Keep(v) EXCEPT !.seen = loc[v]]
    ELSE IF loc[v] = lastRecordedUrlRef[v] THEN [Keep(v) EXCEPT !.seen = loc[v]]
    ELSE [seen |-> loc[v], recorded |-> loc[v]] @@ RecordUrl(v, col, loc[v], f)

\* checkUrl that records a location before it tests the whitelist
CheckUrlOutcomeRecordsFirst(v, col, acc, f) ==
    IF acc = "denied" THEN Keep(v)
    ELSE IF ~Truthy(loc[v]) \/ loc[v] = lastUrlRef[v] THEN Keep(v)
    ELSE IF ~PassesWhitelist(loc[v], f) THEN [Keep(v) EXCEPT !.seen = loc[v], !.recorded = loc[v]]
    ELSE IF loc[v] = lastRecordedUrlRef[v] THEN [Keep(v) EXCEPT !.seen = loc[v]]
    ELSE [seen |-> loc[v], recorded |-> loc[v]] @@ RecordUrl(v, col, loc[v], f)

\* checkUrl that delivers a whitelisted location without setting
\* lastRecordedUrlRef
CheckUrlOutcomeNoRecordGuard(v, col, acc, f) ==
    IF acc = "denied" THEN Keep(v)
    ELSE IF ~Truthy(loc[v]) \/ loc[v] = lastUrlRef[v] THEN Keep(v)
    ELSE IF ~PassesWhitelist(loc[v], f) THEN [Keep(v) EXCEPT !.seen = loc[v]]
    ELSE IF loc[v] = lastRecordedUrlRef[v] THEN [Keep(v) EXCEPT !.seen = loc[v]]
    ELSE [seen |-> loc[v], recorded |-> lastRecordedUrlRef[v]] @@ RecordUrl(v, col, loc[v], f)

\* checkUrl of view v; col is the column record the closure finds, acc tells
\* whether reading the location throws, f holds the facts of the location
CheckUrlOutcome(v, col, acc, f) ==
    IF acc = "denied" THEN Keep(v)
    ELSE IF ~Truthy(loc[v]) \/ loc[v] = lastUrlRef[v] THEN Keep(v)
    ELSE IF ~PassesWhitelist(loc[v], f) THEN [Keep(v) EXCEPT !.seen = loc[v]]
    ELSE IF loc[v] = lastRecordedUrlRef[v] THEN [Keep(v) EXCEPT !.seen = loc[v]]
    ELSE [seen |-> loc[v], recorded |-> loc[v]] @@ RecordUrl(v, col, loc[v], f)

\* what a retry-chain callback of kind k can find in the landmark element
\* it queries
DocsFor(k) ==
    IF k = "profile"
    THEN {[read |-> TRUE, denied |-> FALSE, topNavBar |-> Null, userName |-> t] : t \in UserNameTexts}
    ELSE {[read |-> TRUE, denied |-> FALSE, topNavBar |-> t, userName |-> Null] : t \in TopNavTexts}

\* LIST_NAME_CONFIG.getListName(iframeDoc) and its two siblings
ExtractName(kind, doc) ==
    IF kind = "list" THEN getListName(doc)
    ELSE IF kind = "community" THEN getCommunityName(doc)
    ELSE getUserName(doc)

\* tryGet...Name that calls onUrlChange before it writes the cache, so
\* that the call finds the cache without the name
TryGetNameOutcomeNoCache(v, t, name) ==
    IF Truthy(name)
    THEN [Keep(v) EXCEPT !.call = Call(t.url, name, "dom")]
    ELSE IF t.attempt < MaxAttempts
    THEN [Keep(v) EXCEPT !.sched = {RetryTimer(t.kind, t.url, t.title, t.attempt + 1,
                                               t.attempt * RetryStep, t.due)}]
    ELSE [Keep(v) EXCEPT !.call = Call(t.url, t.title, "fallback")]

\* tryGet...Name that tries again as long as it finds no name
TryGetNameOutcomeEndless(v, t, name) ==
    IF Truthy(name)
    THEN [Keep(v) EXCEPT !.cache = [resolvedNamesRef[v] EXCEPT ![t.url] = name],
                         !.call = Call(t.url, name, "dom")]
    ELSE [Keep(v) EXCEPT !.sched = {RetryTimer(t.kind, t.url, t.title, t.attempt + 1,
                                               t.attempt * RetryStep, t.due)}]

\* tryGet...Name that goes on to a sixth attempt
TryGetNameOutcomeSixAttempts(v, t, name) ==
    IF Truthy(name)
    THEN [Keep(v) EXCEPT !.cache = [resolvedNamesRef[v] EXCEPT ![t.url] = name],
                         !.call = Call(t.url, name, "dom")]
    ELSE IF t.attempt <= MaxAttempts
    THEN [Keep(v) EXCEPT !.sched = {RetryTimer(t.kind, t.url, t.title, t.attempt + 1,
                                               t.attempt * RetryStep, t.due)}]
    ELSE [Keep(v) EXCEPT !.call = Call(t.url, t.title, "fallback")]

\* tryGet...Name that takes every string for a name, the empty one too
TryGetNameOutcomeEmptyName(v, t, name) ==
    IF name # Null
    THEN [Keep(v) EXCEPT !.cache = [resolvedNamesRef[v] EXCEPT ![t.url] = name],
                         !.call = Call(t.url, name, "dom")]
    ELSE IF t.attempt < MaxAttempts
    THEN [Keep(v) EXCEPT !.sched = {RetryTimer(t.kind, t.url, t.title, t.attempt + 1,
                                               t.attempt * RetryStep, t.due)}]
    ELSE [Keep(v) EXCEPT !.call = Call(t.url, t.title, "fallback")]

\* tryGetListName / tryGetCommunityName / tryGetUserName: one attempt, t the
\* callback that runs and name what the extraction returned
TryGetNameOutcome(v, t, name) ==
    IF Truthy(name)
    THEN [Keep(v) EXCEPT !.cache = [resolvedNamesRef[v] EXCEPT ![t.url] = name],
                         !.call = Call(t.url, name, "dom")]
    ELSE IF t.attempt < MaxAttempts
    THEN [Keep(v) EXCEPT !.sched = {RetryTimer(t.kind, t.url, t.title, t.attempt + 1,
                                               t.attempt * RetryStep, t.due)}]
    ELSE [Keep(v) EXCEPT !.call = Call(t.url, t.title, "fallback")]

\* The state change of one callback of view v with outcome o, which read
\* the landmark texts doc.  A call of onUrlChange is handleUrlChange
\* (GenericColumn.tsx): updateColumnUrl and saveToStorage; a changed
\* currentUrl of the column changes the src attribute of its iframe.
Apply(v, o, baseTimers, doc) ==
    /\ dom' = [w \in Views |-> IF w = v THEN doc ELSE NoDoc]
    /\ stay' = [stay EXCEPT ![v] =
                  [calls |-> IF o.call.made /\ o.call.url = loc[v] /\ @.calls < 2
                             THEN @.calls + 1 ELSE @.calls,
                   cold  |-> @.cold,
                   named |-> @.named /\ (doc.read => doc.topNavBar = TextMyList)]]
    /\ lastCall' = [w \in Views |-> IF w = v THEN o.call ELSE NoCall]
    /\ lastUrlRef' = [lastUrlRef EXCEPT ![v] = o.seen]
    /\ lastRecordedUrlRef' = [lastRecordedUrlRef EXCEPT ![v] = o.recorded]
    /\ resolvedNamesRef' = [resolvedNamesRef EXCEPT ![v] = o.cache]
    /\ timers' = [timers EXCEPT ![v] = baseTimers (+) SetToBag(o.sched)]
    /\ extracted' = IF o.call.made /\ o.call.tier = "dom"
                    THEN [extracted EXCEPT ![v][o.call.url] = o.call.title]
                    ELSE extracted
    /\ IF o.call.made
       THEN /\ columns' = updateColumnUrl(columns, v, o.call.url, o.call.title)
            /\ Save(ConfigOf(columns', autoRefresh, filters, display, currentColumnIndex))
            /\ pendingSrc' = [pendingSrc EXCEPT ![v] =
                                IF \E i \in 1..Len(columns) :
                                      columns[i].id = v /\ columns[i].currentUrl # o.call.url
                                THEN o.call.url ELSE @]
       ELSE /\ UNCHANGED <<columns, storedConfig, pendingSrc>>
            /\ lastStorage' = NoStorage
    /\ lastColumnOp' = IF o.call.made THEN UrlOp(v, o.call.url, o.call.title) ELSE NoColumnOp
    /\ UNCHANGED <<loc, navCount, routeInput, routeOutcome, sectionVars, autoRefresh, filters, display, currentColumnIndex,
                   rateVars, filterVars, exportedFile, lastImport, faulty, isLoading>>

(***************************************************************************)
(* The navigation watcher: triggers, timers and the embedded view.  The    *)
(* embedded page is the environment: whether cross-context access throws   *)
(* is drawn at every trigger, the landmark text at every read.  A pending  *)
(* setTimeout callback runs at some later moment (the event loop promises  *)
(* no more than "not before its delay"); the delay it was scheduled with   *)
(* and the time its chain has taken are kept in the timer.                 *)
(***************************************************************************)
AccessModes == {"ok", "denied"}

PendingChecks(v) == CopiesIn(CheckTimer, timers[v])

\* A trigger that runs checkUrl at once: the setInterval tick, or a popstate
\* or hashchange event of the embedded window.  The interval ticks whatever
\* the view does, so the listeners add no trigger the tick does not give.
Trigger(v, acc) ==
    \E col \in {FindColumn(columns, v)}, f \in {UrlFacts[loc[v]]} :
        \E o \in {CheckUrlOutcome(v, col, acc, f)} :
            Apply(v, o, timers[v], IF acc = "denied" THEN DeniedDoc ELSE NoDoc)

\* handleLoad, the listener of the iframe's load event: the timers of view v
\* after the view loaded a document
handleLoad(v) == timers[v] (+) SetToBag({CheckTimer})

\* the setTimeout(checkUrl, 100) callback of handleLoad
LoadCheckFire(v, acc) ==
    /\ PendingChecks(v) > 0
    /\ \E col \in {FindColumn(columns, v)}, f \in {UrlFacts[loc[v]]} :
          \E o \in {CheckUrlOutcome(v, col, acc, f)} :
              Apply(v, o, timers[v] (-) SetToBag({CheckTimer}),
                    IF acc = "denied" THEN DeniedDoc ELSE NoDoc)

\* a retry-chain callback
RetryFire(v) ==
    \E t \in BagToSet(timers[v]) :
        /\ t.kind # "check"
        /\ \E doc \in DocsFor(t.kind) :
              \E name \in {ExtractName(t.kind, doc)} :
                  \E o \in {TryGetNameOutcome(v, t, name)} :
                      Apply(v, o, timers[v] (-) SetToBag({t}), doc)

\* the placeholder title of the resolution route of a URL with facts f
PlaceholderOf(f) ==
    IF f.list THEN PlaceholderList
    ELSE IF f.community THEN PlaceholderCommunity
    ELSE PlaceholderProfile

\* the stay that begins when view v arrives at u
Arrival(v, u) ==
    \E col \in {FindColumn(columns, v)}, f \in {UrlFacts[u]} :
        stay' = [stay EXCEPT ![v] =
                   [calls |-> 0,
                    cold  |-> /\ ~Truthy(resolvedNamesRef[v][u])
                              /\ ~(col.has /\ col.title # PlaceholderOf(f) /\ col.currentUrl = u),
                    named |-> TRUE]]

\* the user navigates inside the loaded view: a history change of the
\* single-page application, which loads no document
Navigate(v, u) ==
    /\ navCount < MaxNav
    /\ loc[v] # AboutBlank
    /\ u # loc[v]
    /\ loc' = [loc EXCEPT ![v] = u]
    /\ navCount' = navCount + 1
    /\ Arrival(v, u)
    /\ dom' = [w \in Views |-> NoDoc]
    /\ lastCall' = [w \in Views |-> NoCall]
    /\ lastColumnOp' = NoColumnOp
    /\ UNCHANGED <<pendingSrc, lastUrlRef, lastRecordedUrlRef, resolvedNamesRef, timers, extracted, routeInput, routeOutcome, sectionVars,
                   storeVars, rateVars, filterVars, configVars>>

\* the iframe follows its changed src attribute and loads the document
CommitSrc(v) ==
    /\ pendingSrc[v] # Null
    /\ PendingChecks(v) < MaxPendingChecks
    /\ timers' = [timers EXCEPT ![v] = handleLoad(v)]
    /\ loc' = [loc EXCEPT ![v] = pendingSrc[v]]
    /\ pendingSrc' = [pendingSrc EXCEPT ![v] = Null]
    /\ IF pendingSrc[v] = loc[v] THEN UNCHANGED stay ELSE Arrival(v, pendingSrc[v])
    /\ dom' = [w \in Views |-> NoDoc]
    /\ lastCall' = [w \in Views |-> NoCall]
    /\ lastColumnOp' = NoColumnOp
    /\ UNCHANGED <<lastUrlRef, lastRecordedUrlRef, resolvedNamesRef, navCount, extracted, routeInput, routeOutcome, sectionVars,
                   storeVars, rateVars, filterVars, configVars>>

\* no embedded document is filtered
FilterQuiet ==
    /\ posts = << >>
    /\ activeFilters = << >>
    /\ observing = FALSE
    /\ loaded = FALSE
    /\ lastPass = NoPass

\* nothing was exported or imported
ConfigQuiet ==
    /\ exportedFile = NoFile
    /\ lastImport = NoImport
    /\ faulty = FALSE
    /\ isLoading = FALSE
    /\ lastStorage = NoStorage

\* no loadRateLimits() of the page is under way
NoLoad == [has |-> FALSE, limits |-> DEFAULT_RATE_LIMIT_STATE]

\* the worker before it has seen a response
RateQuiet ==
    /\ rateLimitState = DEFAULT_RATE_LIMIT_STATE
    /\ rateLimitStored = NoRateLimits
    /\ now = 0
    /\ lastRequest = NoRequest
    /\ rateLimits = DEFAULT_RATE_LIMIT_STATE
    /\ changes = << >>
    /\ cleared = FALSE
    /\ loadPending = NoLoad

NavInit ==
    /\ \E c \in InitColumnStates :
          columns = << [id |-> "A", title |-> c.title, currentUrl |-> c.currentUrl, type |-> "column"],
                       SettingsColumnRec >>
    /\ autoRefresh = DefaultAutoRefresh
    /\ filters = << >>
    /\ display = DefaultDisplay
    /\ currentColumnIndex = 0
    /\ storedConfig = ConfigOf(columns, autoRefresh, filters, display, currentColumnIndex)
    /\ loc = [v \in Views |-> AboutBlank]
    /\ dom = [v \in Views |-> NoDoc]
    /\ pendingSrc = [v \in Views |-> IF v \in OneView THEN columns[1].currentUrl ELSE Null]
    /\ lastUrlRef = [v \in Views |-> EmptyStr]
    /\ lastRecordedUrlRef = [v \in Views |-> EmptyStr]
    /\ resolvedNamesRef = [v \in Views |-> [u \in Urls |-> Null]]
    /\ timers = [v \in Views |-> EmptyBag]
    /\ lastCall = [v \in Views |-> NoCall]
    /\ stay = [v \in Views |-> [calls |-> 0, cold |-> FALSE, named |-> TRUE]]
    /\ navCount = 0
    /\ extracted = [v \in Views |-> [u \in Urls |-> Null]]
    /\ routeInput = EmptyStr
    /\ routeOutcome = NoOutcome
    /\ lastColumnOp = NoColumnOp
    /\ SectionQuiet
    /\ RateQuiet
    /\ FilterQuiet
    /\ ConfigQuiet

NavNext ==
    \/ \E v \in OneView, acc \in AccessModes : Trigger(v, acc)
    \/ \E v \in OneView, acc \in AccessModes : LoadCheckFire(v, acc)
    \/ \E v \in OneView : RetryFire(v)
    \/ \E v \in OneView, u \in NavUrls : Navigate(v, u)
    \/ \E v \in OneView : CommitSrc(v)

SpecNav == NavInit /\ [][NavNext]_vars

(***************************************************************************)
(* Properties of the navigation watcher and the title resolver.            *)
(***************************************************************************)
\* a URL of a route whose title is resolved (list, community, profile)
IsResolutionRoute(url) ==
    UrlFacts[url].list \/ UrlFacts[url].community \/ UrlFacts[url].profile

\* the persisted column record col holds a qualifying title for url
PersistedQualifies(col, url) ==
    col.has /\ col.title # PlaceholderOf(UrlFacts[url]) /\ col.currentUrl = url

\* the retry-chain callbacks pending in the first bag and not in the second
Added(after, before) ==
    {t \in BagToSet(after) : CopiesIn(t, after) > CopiesIn(t, before)}

\* 3500 ms: 500 + 300 + 600 + 900 + 1200
RetryWindow == FirstAttemptDelay + RetryStep * (1 + 2 + 3 + 4)

\* C1: onUrlChange is never called with a URL that shouldRecordUrl rejects,
\* whether the call comes from a trigger or from a retry-chain callback.
C1_OnlyWhitelistedUrlsDelivered ==
    \A v \in Views : lastCall[v].made => UrlFacts[lastCall[v].url].record

\* A retry chain delivers its whitelisted URL while the view is at a URL that
\* is not whitelisted and that checkUrl has seen and skipped.
C1_Witness ==
    \E v \in Views :
        /\ loc[v] = UStatus
        /\ lastUrlRef[v] = UStatus
        /\ ~UrlFacts[loc[v]].record
        /\ lastCall[v].made
        /\ lastCall[v].tier = "dom"
        /\ lastCall[v].url = UList

\* C2: while a view stays at a whitelisted URL, onUrlChange is called for
\* that URL at most once, whatever triggers and retry-chain callbacks run.
C2_AtMostOneCallPerStay ==
    \A v \in Views : UrlFacts[loc[v]].record => stay[v].calls <= 1

\* C3 as claimed: a trigger that finds the view at a new resolution-route
\* URL for which the memory cache holds an entry calls onUrlChange at once
\* with the cached title.
C3_CachedUrlAlwaysDelivered ==
    [][\A v \in Views :
          ( /\ lastUrlRef'[v] # lastUrlRef[v]
            /\ lastUrlRef'[v] = loc[v]
            /\ IsResolutionRoute(loc[v])
            /\ UrlFacts[loc[v]].record
            /\ resolvedNamesRef[v][loc[v]] # Null )
          => lastCall'[v] = Call(loc[v], resolvedNamesRef[v][loc[v]], "memory")]_vars

\* C3 as amended: a trigger that finds the view at a new resolution-route
\* URL other than the URL recorded last, for which the memory cache holds a
\* non-empty name, calls onUrlChange in the same step with exactly the
\* cached name; the cache is left as it was, the column takes the cached
\* name, no landmark element is read and no callback is scheduled.
C3_CacheHitDeliversAtOnce ==
    [][\A v \in Views :
          ( /\ lastUrlRef'[v] # lastUrlRef[v]
            /\ lastUrlRef'[v] = loc[v]
            /\ IsResolutionRoute(loc[v])
            /\ UrlFacts[loc[v]].record
            /\ loc[v] # lastRecordedUrlRef[v]
            /\ Truthy(resolvedNamesRef[v][loc[v]]) )
          => /\ lastCall'[v] = Call(loc[v], resolvedNamesRef[v][loc[v]], "memory")
             /\ Added(timers'[v], timers[v]) = {}
             /\ dom'[v] = NoDoc
             /\ resolvedNamesRef'[v] = resolvedNamesRef[v]
             /\ FindColumn(columns', v).title = resolvedNamesRef[v][loc[v]]
             /\ FindColumn(columns', v).currentUrl = loc[v]]_vars

\* A call from the memory tier whose title is not the title the column held
\* when the view arrived is made for a URL the cache holds.
C3_Witness ==
    \E v \in Views :
        /\ lastCall[v].made
        /\ lastCall[v].tier = "memory"
        /\ lastCall[v].url = loc[v]
        /\ IsResolutionRoute(loc[v])
        /\ resolvedNamesRef[v][loc[v]] = lastCall[v].title
        /\ timers[v] = EmptyBag

\* C9: a view that arrives at a list URL with no cached and no qualifying
\* persisted name, and whose landmark element shows NAME@owner at every
\* read, gets exactly one call onUrlChange(url, NAME): a delivery that read
\* NAME@owner is the first call of the stay.
C9_OneNamedCallPerListVisit ==
    [][\A v \in Views :
          ( /\ UrlFacts[loc[v]].list
            /\ stay[v].cold
            /\ stay'[v].named
            /\ lastCall'[v].made
            /\ lastCall'[v].url = loc[v] )
          => /\ stay[v].calls = 0
             /\ lastCall'[v].title = TitleMyList]_vars

\* C10: the tiers are consulted in the order memory cache, persisted column
\* record, DOM extraction with retries, URL-derived fallback, each only
\* after every earlier one failed: a persisted title is delivered only on a
\* cache miss, a retry chain starts only on a cache miss and a persisted
\* miss, an extracted name is delivered by a pending attempt of a chain for
\* that URL, the fallback title only by the last attempt after its read
\* failed; and the attempt that delivers ends its chain.
C10_TiersInStrictOrder ==
    [][\A v \in Views :
          LET c   == lastCall'[v]
              col == FindColumn(columns, v)
          IN  /\ (c.made /\ c.tier = "memory") =>
                    /\ Truthy(resolvedNamesRef[v][c.url])
                    /\ c.title = resolvedNamesRef[v][c.url]
              /\ (c.made /\ c.tier = "persisted") =>
                    /\ ~Truthy(resolvedNamesRef[v][c.url])
                    /\ PersistedQualifies(col, c.url)
                    /\ c.title = col.title
              /\ \A t \in Added(timers'[v], timers[v]) :
                    (t.kind # "check" /\ t.attempt = 1) =>
                        /\ ~c.made
                        /\ ~Truthy(resolvedNamesRef[v][t.url])
                        /\ ~PersistedQualifies(col, t.url)
              /\ (c.made /\ c.tier = "dom") =>
                    \E t \in BagToSet(timers[v]) :
                        /\ t.kind # "check" /\ t.url = c.url
                        /\ c.title = ExtractName(t.kind, dom'[v])
                        /\ Truthy(c.title)
                        /\ timers'[v] = timers[v] (-) SetToBag({t})
              /\ (c.made /\ c.tier = "fallback") =>
                    \E t \in BagToSet(timers[v]) :
                        /\ t.kind # "check" /\ t.url = c.url
                        /\ t.attempt = MaxAttempts
                        /\ t.due = RetryWindow
                        /\ ~Truthy(ExtractName(t.kind, dom'[v]))
                        /\ c.title = UrlFacts[c.url].title
                        /\ timers'[v] = timers[v] (-) SetToBag({t})]_vars

\* The fifth attempt of a chain failed and the URL-derived title is
\* delivered for the list the view is at.
C10_Witness ==
    \E v \in Views :
        /\ lastCall[v].made
        /\ lastCall[v].tier = "fallback"
        /\ lastCall[v].url = UList
        /\ lastCall[v].title = TitleList
        /\ loc[v] = UList

\* the event loop runs a callback that is due: a pending attempt of a
\* retry chain is not left waiting for ever
SpecNavFair == SpecNav /\ \A v \in OneView : WF_vars(RetryFire(v))

\* the pending attempts of retry chains in a bag of timers
RetryTimers(bag) == {t \in BagToSet(bag) : t.kind # "check"}

\* no attempt of a retry chain is pending
NoRetryPending == \A v \in Views : RetryTimers(timers[v]) = {}

\* C11: a retry chain starts with attempt 1 scheduled 500 ms after the
\* trigger; an attempt k < 5 that finds no name schedules attempt k + 1
\* after k x 300 ms and calls nothing; there is no attempt after the 5th;
\* the attempt that finds a name, or the 5th that finds none, makes the one
\* call of its chain (the 5th failing: the title getTitleFromUrl gives, at
\* once) and leaves no callback of the chain pending; and every chain
\* comes to this end.
C11_RetryChainEndsWithOneCall ==
    /\ [][\A v \in Views :
             LET ran   == Added(timers[v], timers'[v]) \cap RetryTimers(timers[v])
                 added == Added(timers'[v], timers[v]) \cap RetryTimers(timers'[v])
                 c     == lastCall'[v]
             IN  /\ \A a \in added :
                       /\ a.attempt <= MaxAttempts
                       /\ ~c.made
                       /\ \/ /\ ran = {}
                             /\ a.attempt = 1
                             /\ a.delay = FirstAttemptDelay
                             /\ a.due = FirstAttemptDelay
                             /\ a.url = loc[v]
                          \/ \E t \in ran :
                                /\ added = {a}
                                /\ a.url = t.url
                                /\ a.attempt = t.attempt + 1
                                /\ a.delay = t.attempt * RetryStep
                                /\ a.due = t.due + a.delay
                                /\ ~Truthy(ExtractName(t.kind, dom'[v]))
                 /\ \A t \in ran :
                       /\ Cardinality(ran) = 1
                       /\ CopiesIn(t, timers'[v]) = CopiesIn(t, timers[v]) - 1
                       /\ t.attempt \in 1..MaxAttempts
                       /\ (c.made /\ added = {}) \/ (~c.made /\ Cardinality(added) = 1)
                       /\ c.made => c.url = t.url
                       /\ Truthy(ExtractName(t.kind, dom'[v])) =>
                             c = Call(t.url, ExtractName(t.kind, dom'[v]), "dom")
                       /\ (~Truthy(ExtractName(t.kind, dom'[v])) /\ t.attempt = MaxAttempts) =>
                             c = Call(t.url, getTitleFromUrl(t.url), "fallback")
                       /\ (~Truthy(ExtractName(t.kind, dom'[v])) /\ t.attempt < MaxAttempts) =>
                             ~c.made]_vars
    /\ []<>NoRetryPending

\* The fifth attempt of the chain of the list URL, 3500 ms after the
\* trigger, has read a landmark element without a name and has delivered
\* the title "List"; no attempt is pending any more.
C11_Witness ==
    \E v \in Views :
        /\ lastCall[v] = Call(UList, TitleList, "fallback")
        /\ dom[v].read
        /\ ~Truthy(getListName(dom[v]))
        /\ NoRetryPending

\* C12: the persisted tier delivers the stored title of the column only if
\* the stored URL is the URL navigated to and the stored title is not the
\* default title the resolver falls back to for the route (the title
\* getTitleFromUrl gives), so that a column left with that default is
\* resolved from the document again.
C12_PersistedTierSkipsDefaultTitle ==
    [][\A v \in Views :
          LET c   == lastCall'[v]
              col == FindColumn(columns, v)
          IN  (c.made /\ c.tier = "persisted") =>
                 /\ col.has
                 /\ col.currentUrl = c.url
                 /\ c.title = col.title
                 /\ col.title # getTitleFromUrl(c.url)]_vars

\* the trigger of this step has found view v at a location it had not seen
Noticed(v) == lastUrlRef'[v] # lastUrlRef[v] /\ lastUrlRef'[v] = loc[v]

ColumnTypeOf == [u \in Urls |-> getColumnTypeFromUrl(u)]

\* C14: a trigger that records a new whitelisted URL starts the title
\* resolver (a delivery from the memory cache or the persisted record, or
\* a first attempt scheduled) if and only if getColumnTypeFromUrl
\* classifies the URL as list, community or user-profile; for any other
\* whitelisted URL it calls onUrlChange(url, getTitleFromUrl(url)) in the
\* same step, writes no cache entry and schedules nothing.
C14_ResolverOnlyForNamedRoutes ==
    [][\A v \in Views :
          ( /\ lastRecordedUrlRef'[v] # lastRecordedUrlRef[v]
            /\ lastRecordedUrlRef'[v] = loc[v] )
          => LET c       == lastCall'[v]
                 started == Added(timers'[v], timers[v]) \cap RetryTimers(timers'[v])
             IN  IF ColumnTypeOf[loc[v]] \in {"list", "community", "user-profile"}
                 THEN \/ c.made /\ c.tier \in {"memory", "persisted"} /\ started = {}
                      \/ ~c.made /\ Cardinality(started) = 1
                 ELSE /\ c = Call(loc[v], getTitleFromUrl(loc[v]), "direct")
                      /\ started = {}
                      /\ resolvedNamesRef'[v] = resolvedNamesRef[v]]_vars

CategoryOf == [u \in RequestUrls |-> detectRateLimitCategory(u)]

\* a page that shows no view
NavQuiet ==
    /\ loc = [v \in Views |-> AboutBlank]
    /\ dom = [v \in Views |-> NoDoc]
    /\ pendingSrc = [v \in Views |-> Null]
    /\ lastUrlRef = [v \in Views |-> EmptyStr]
    /\ lastRecordedUrlRef = [v \in Views |-> EmptyStr]
    /\ resolvedNamesRef = [v \in Views |-> [u \in Urls |-> Null]]
    /\ timers = [v \in Views |-> EmptyBag]
    /\ lastCall = [v \in Views |-> NoCall]
    /\ stay = [v \in Views |-> [calls |-> 0, cold |-> FALSE, named |-> TRUE]]
    /\ navCount = 0
    /\ extracted = [v \in Views |-> [u \in Urls |-> Null]]
    /\ routeInput = EmptyStr
    /\ routeOutcome = NoOutcome
    /\ lastColumnOp = NoColumnOp
    /\ SectionQuiet

\* The listener of chrome.webRequest.onHeadersReceived for one response:
\* details.url and details.responseHeaders are drawn from the responses
\* modelled; Date.now() reads the clock, which has advanced.  A write to
\* storage raises chrome.storage.onChanged for the page.
onHeadersReceived ==
    /\ now < MaxClock
    /\ now' = now + 1
    /\ \E url \in RequestUrls :
          \E category \in {CategoryOf[url]}, headers \in Responses :
             \E limit \in {getHeaderValue(headers, HeaderLimit)},
                remaining \in {getHeaderValue(headers, HeaderRemaining)},
                resetAt \in {getHeaderValue(headers, HeaderReset)} :
                \E o \in {ListenerOutcome(rateLimitState, category, limit, remaining, resetAt, now + 1)} :
                   /\ rateLimitState' = o.state
                   /\ rateLimitStored' = IF o.wrote THEN [has |-> TRUE, map |-> o.state]
                                                    ELSE rateLimitStored
                   /\ lastRequest' = [seen |-> TRUE, url |-> url, category |-> category,
                                      headers |-> headers, wrote |-> o.wrote]
                   /\ changes' = IF o.wrote THEN Append(changes, o.state) ELSE changes
                   /\ cleared' = IF category # NoCategory /\ ~AllNull(limit, remaining, resetAt)
                                 THEN FALSE ELSE cleared
    /\ UNCHANGED <<rateLimits, loadPending, navVars, lastColumnOp, sectionVars, storeVars, filterVars, configVars>>

\* The browser stops an idle service worker and starts it again for the
\* next event: the module is evaluated anew, storage is kept.
WorkerStart ==
    /\ rateLimitState # DEFAULT_RATE_LIMIT_STATE
    /\ rateLimitState' = DEFAULT_RATE_LIMIT_STATE
    /\ lastRequest' = NoRequest
    /\ UNCHANGED <<rateLimitStored, now, rateLimits, changes, cleared, loadPending, navVars, lastColumnOp, sectionVars, storeVars, filterVars, configVars>>

\* loadRateLimits(): DEFAULT_RATE_LIMIT_STATE with what storage holds under
\* RATE_LIMIT_STORAGE_KEY laid over it
loadRateLimits(stored) ==
    IF stored.has
    THEN [c \in RateLimitCategories |->
            IF c \in DOMAIN stored.map THEN stored.map[c] ELSE DEFAULT_RATE_LIMIT_STATE[c]]
    ELSE DEFAULT_RATE_LIMIT_STATE

\* The listener watchRateLimits() registered is called with the oldest
\* change of RATE_LIMIT_STORAGE_KEY not delivered yet: setRateLimits(newValue).
rateLimitsChanged ==
    /\ changes # << >>
    /\ rateLimits' = Head(changes)
    /\ changes' = Tail(changes)
    /\ lastRequest' = NoRequest
    /\ UNCHANGED <<rateLimitState, rateLimitStored, now, cleared, loadPending, navVars, lastColumnOp, sectionVars, storeVars, filterVars, configVars>>


(***************************************************************************)
(* Properties of the rate-limit tracker.                                   *)
(***************************************************************************)
\* the texts of the headers called name, whatever the case of their names
HeaderTextsOf(headers, name) ==
    SelectSeq(headers.list, LAMBDA h : ToLower(h.name) = ToLower(name))

\* the quota a response shows in the header called name: the number its
\* first header of that name spells, or null
Observed(headers, name) ==
    LET texts == HeaderTextsOf(headers, name)
    IN  IF ~headers.has \/ texts = << >> THEN NullNum
        ELSE IF texts[1].value # << >> /\ \A i \in 1..Len(texts[1].value) : texts[1].value[i] \in DigitChars
        THEN Num(DecimalValue(texts[1].value))
        ELSE NullNum

\* what each response modelled shows
Shown ==
    [h \in Responses |->
        [limit     |-> Observed(h, HeaderLimit),
         remaining |-> Observed(h, HeaderRemaining),
         resetAt   |-> Observed(h, HeaderReset)]]

\* what the patterns say of each request target modelled
RequestFacts ==
    [u \in RequestUrls |->
        [mentionsHome |-> Includes(u, <<"H","o","m","e","L","a","t","e","s","t","T","i","m","e","l","i","n","e">>),
         earlier      |-> RuleMatches(RATE_LIMIT_PATTERNS[1], u) \/ RuleMatches(RATE_LIMIT_PATTERNS[2], u),
         any          |-> \E i \in 1..Len(RATE_LIMIT_PATTERNS) : RuleMatches(RATE_LIMIT_PATTERNS[i], u)]]

\* C4: after a categorised response with at least one quota header present,
\* each of limit, remaining and resetAt of the category's record is the
\* observed value if its header is present and the prior value if not; an
\* observed 0 replaces the prior value.
C4_MergeFieldByField ==
    [][( /\ lastRequest'.seen
         /\ lastRequest'.category # NoCategory
         /\ Shown[lastRequest'.headers] # [limit |-> NullNum, remaining |-> NullNum, resetAt |-> NullNum] )
       => LET shown == Shown[lastRequest'.headers]
              prior == rateLimitState[lastRequest'.category]
              after == rateLimitState'[lastRequest'.category]
          IN  /\ after.limit = IF shown.limit # NullNum THEN shown.limit ELSE prior.limit
              /\ after.remaining = IF shown.remaining # NullNum THEN shown.remaining ELSE prior.remaining
              /\ after.resetAt = IF shown.resetAt # NullNum THEN shown.resetAt ELSE prior.resetAt]_vars

\* A response that shows only remaining: 0 has been merged into a record
\* that held limit 5 and resetAt 5: the 0 replaced the remaining quota.
C4_Witness ==
    /\ lastRequest.seen
    /\ lastRequest.category = "homeLatestTimeline"
    /\ lastRequest.headers = ResponseOf(Absent, <<"0">>, Absent)
    /\ lastRequest.wrote
    /\ rateLimitState["homeLatestTimeline"] =
          [limit |-> Num(5), remaining |-> Num(0), resetAt |-> Num(5), lastUpdated |-> Num(now)]

\* C5: a categorised response none of whose three quota headers shows a
\* number changes nothing: the map of the worker with every lastUpdated and
\* the stored map stay as they are, and storage is not written.
C5_NoQuotaNoChange ==
    [][( /\ lastRequest'.seen
         /\ lastRequest'.category # NoCategory
         /\ Shown[lastRequest'.headers] = [limit |-> NullNum, remaining |-> NullNum, resetAt |-> NullNum] )
       => /\ rateLimitState' = rateLimitState
          /\ rateLimitStored' = rateLimitStored
          /\ ~lastRequest'.wrote]_vars

\* A response for the home timeline whose quota headers are not numbers
\* met a record that holds quotas, and nothing was written.
C5_Witness ==
    /\ lastRequest.seen
    /\ lastRequest.category = "homeLatestTimeline"
    /\ lastRequest.headers = ResponseOf(<<"a","b","c">>, << >>, <<"n","/","a">>)
    /\ ~lastRequest.wrote
    /\ rateLimitState["homeLatestTimeline"].remaining = Num(5)
    /\ rateLimitStored.has
    /\ rateLimitStored.map = rateLimitState

\* C6 as claimed: every request target that contains HomeLatestTimeline is
\* classified as homeLatestTimeline, and a target that matches no pattern
\* is classified as null and changes nothing.
C6_HomeLatestAlwaysClassified ==
    [][lastRequest'.seen =>
          /\ RequestFacts[lastRequest'.url].mentionsHome =>
                lastRequest'.category = "homeLatestTimeline"
          /\ ~RequestFacts[lastRequest'.url].any =>
                /\ lastRequest'.category = NoCategory
                /\ rateLimitState' = rateLimitState
                /\ rateLimitStored' = rateLimitStored
                /\ ~lastRequest'.wrote]_vars

\* C6 as amended: a request target that contains HomeLatestTimeline and
\* matches no pattern of the entries before homeLatestTimeline (tweetPost,
\* userTimeline) is classified as homeLatestTimeline, and a target that
\* matches no pattern is classified as null and changes neither the map nor
\* storage, whatever its headers.
C6_FirstMatchClassifies ==
    [][lastRequest'.seen =>
          /\ (RequestFacts[lastRequest'.url].mentionsHome /\ ~RequestFacts[lastRequest'.url].earlier) =>
                lastRequest'.category = "homeLatestTimeline"
          /\ ~RequestFacts[lastRequest'.url].any =>
                /\ lastRequest'.category = NoCategory
                /\ rateLimitState' = rateLimitState
                /\ rateLimitStored' = rateLimitStored
                /\ ~lastRequest'.wrote]_vars

\* A response with all three quotas for a target no pattern matches was
\* ignored by a worker that holds quotas of the home timeline only.
C6_Witness ==
    /\ lastRequest.seen
    /\ lastRequest.url = UrlClientEvent
    /\ lastRequest.category = NoCategory
    /\ lastRequest.headers = ResponseOf(<<"5">>, <<"5">>, <<"5">>)
    /\ ~lastRequest.wrote
    /\ rateLimitState["homeLatestTimeline"].lastUpdated # NullNum
    /\ rateLimitState["searchLatest"] = NoRateLimitInfo
    /\ rateLimitState["userTimeline"] = NoRateLimitInfo
    /\ rateLimitState["tweetPost"] = NoRateLimitInfo

\* limit, remaining and resetAt of a record
Triple(record) == <<record.limit, record.remaining, record.resetAt>>

\* the triple of what a response shows merged into the record prior: the
\* value shown where there is one, the value of prior where there is none
MergedTriple(shown, prior) ==
    << IF shown.limit # NullNum THEN shown.limit ELSE prior.limit,
       IF shown.remaining # NullNum THEN shown.remaining ELSE prior.remaining,
       IF shown.resetAt # NullNum THEN shown.resetAt ELSE prior.resetAt >>

\* C16: a categorised response whose merged triple (limit, remaining,
\* resetAt) equals the triple the worker holds for the category changes
\* nothing: the map with every lastUpdated and the stored map stay as they
\* are and storage is not written; and whenever storage is written, the
\* triple of some category has changed in that step.
C16_EqualTripleIsNoOp ==
    [][lastRequest'.seen =>
          /\ ( /\ lastRequest'.category # NoCategory
               /\ MergedTriple(Shown[lastRequest'.headers], rateLimitState[lastRequest'.category])
                     = Triple(rateLimitState[lastRequest'.category]) )
             => /\ rateLimitState' = rateLimitState
                /\ rateLimitStored' = rateLimitStored
                /\ ~lastRequest'.wrote
          /\ (lastRequest'.wrote \/ rateLimitStored' # rateLimitStored)
             => \E c \in DOMAIN rateLimitState :
                   Triple(rateLimitState'[c]) # Triple(rateLimitState[c])]_vars

\* A response for the home timeline that shows 5, 5 and 5 met the record
\* an earlier response had set to 5, 5 and 5: the record keeps the time of
\* the earlier response and nothing was written.
C16_Witness ==
    /\ lastRequest.seen
    /\ lastRequest.category = "homeLatestTimeline"
    /\ lastRequest.headers = ResponseOf(<<"5">>, <<"5">>, <<"5">>)
    /\ ~lastRequest.wrote
    /\ now = 2
    /\ rateLimitState["homeLatestTimeline"] =
          [limit |-> Num(5), remaining |-> Num(5), resetAt |-> Num(5), lastUpdated |-> Num(1)]
    /\ rateLimitStored = [has |-> TRUE, map |-> rateLimitState]

\* C17: a categorised response whose merged triple differs from the triple
\* the worker holds for the category replaces the record of the category by
\* the merged triple with lastUpdated the time of the response, leaves the
\* record of every other category as it is, and writes the whole map: the
\* stored map is the map of the worker after the step.
C17_ChangedTripleIsWritten ==
    [][( /\ lastRequest'.seen
         /\ lastRequest'.category # NoCategory
         /\ MergedTriple(Shown[lastRequest'.headers], rateLimitState[lastRequest'.category])
               # Triple(rateLimitState[lastRequest'.category]) )
       => /\ Triple(rateLimitState'[lastRequest'.category])
                = MergedTriple(Shown[lastRequest'.headers], rateLimitState[lastRequest'.category])
          /\ rateLimitState'[lastRequest'.category].lastUpdated = Num(now')
          /\ \A c \in DOMAIN rateLimitState :
                c # lastRequest'.category => rateLimitState'[c] = rateLimitState[c]
          /\ lastRequest'.wrote
          /\ rateLimitStored' = [has |-> TRUE, map |-> rateLimitState']]_vars

\* A response for a user timeline that shows only remaining: 0 was written
\* by a worker that already held the quotas of the home timeline: the home
\* record is as the first response left it and storage holds both.
C17_Witness ==
    /\ lastRequest.seen
    /\ lastRequest.category = "userTimeline"
    /\ lastRequest.headers = ResponseOf(Absent, <<"0">>, Absent)
    /\ lastRequest.wrote
    /\ now = 2
    /\ rateLimitState["userTimeline"] =
          [limit |-> NullNum, remaining |-> Num(0), resetAt |-> NullNum, lastUpdated |-> Num(2)]
    /\ rateLimitState["homeLatestTimeline"] =
          [limit |-> Num(5), remaining |-> Num(5), resetAt |-> Num(5), lastUpdated |-> Num(1)]
    /\ rateLimitStored = [has |-> TRUE, map |-> rateLimitState]

(***************************************************************************)
(* The content filter engine at work in one embedded document.             *)
(***************************************************************************)
\* the timelines a freshly loaded document shows
LoadedDocuments ==
    { << >>, <<PostPhoto>>, <<PostHello, PostSpam>>, <<PostSpam, PostJackRead>>,
      <<PostAdRetweet, PostPhoto>> }

\* new RegExp(pattern) for every pattern a rule of the model carries
RegExps == [p \in Patterns |-> RegExpOf(p)]

\* the posts of ps that carry no processed mark
Unprocessed(ps) == {i \in 1..Len(ps) : ~ps[i].processed}

\* The load handler of the embedded view as far as it filters: a new
\* document showing ps replaces the old one, applyFilters takes the enabled
\* rules of the store, returns if there are none, else runs filterPosts and
\* starts a MutationObserver.
FrameLoad(ps) ==
    /\ loaded' = TRUE
    /\ \E active \in {EnabledFilters(filters)}, regexOf \in {RegExps} :
          IF active = << >>
          THEN /\ posts' = ps
               /\ activeFilters' = << >>
               /\ observing' = FALSE
               /\ lastPass' = NoPass
          ELSE \E o \in {filterPosts(ps, active, 1, regexOf)} :
                  /\ posts' = o.posts
                  /\ activeFilters' = active
                  /\ observing' = ~o.threw
                  /\ lastPass' = [ran |-> TRUE, load |-> TRUE, fresh |-> Unprocessed(ps),
                                  errors |-> o.errors, threw |-> o.threw]
    /\ UNCHANGED <<navVars, lastColumnOp, sectionVars, storeVars, rateVars, configVars>>

\* The page adds a post to its document; the MutationObserver, if there is
\* one, runs filterPosts with the rules applyFilters captured.
Mutate(p) ==
    /\ loaded
    /\ Len(posts) < MaxPosts
    /\ \E ps \in {Append(posts, p)}, regexOf \in {RegExps} :
          IF ~observing
          THEN /\ posts' = ps
               /\ lastPass' = NoPass
          ELSE \E o \in {filterPosts(ps, activeFilters, 1, regexOf)} :
                  /\ posts' = o.posts
                  /\ lastPass' = [ran |-> TRUE, load |-> FALSE, fresh |-> Unprocessed(ps),
                                  errors |-> o.errors, threw |-> o.threw]
    /\ UNCHANGED <<activeFilters, observing, loaded, navVars, lastColumnOp, sectionVars, storeVars, rateVars, configVars>>

\* The page changes its document without adding a post; the
\* MutationObserver, if there is one, runs filterPosts all the same.
MutateOther ==
    /\ observing
    /\ \E regexOf \in {RegExps} :
          \E o \in {filterPosts(posts, activeFilters, 1, regexOf)} :
             /\ posts' = o.posts
             /\ lastPass' = [ran |-> TRUE, load |-> FALSE, fresh |-> Unprocessed(posts),
                             errors |-> o.errors, threw |-> o.threw]
    /\ UNCHANGED <<activeFilters, observing, loaded, navVars, lastColumnOp, sectionVars, storeVars, rateVars, configVars>>

\* toggleFilter(filterId) of the store, with its saveToStorage
toggleFilter(filterId) ==
    /\ \E i \in 1..Len(filters) : filters[i].id = filterId
    /\ filters' = [i \in 1..Len(filters) |->
                     IF filters[i].id = filterId
                     THEN [filters[i] EXCEPT !.enabled = ~@]
                     ELSE filters[i]]
    /\ Save(ConfigOf(columns, autoRefresh, filters', display, currentColumnIndex))
    /\ lastPass' = NoPass
    /\ UNCHANGED <<columns, autoRefresh, display, currentColumnIndex, posts, activeFilters,
                   observing, loaded, navVars, lastColumnOp, sectionVars, rateVars, exportedFile, lastImport, faulty, isLoading>>

FilterInit ==
    /\ NavQuiet
    /\ RateQuiet
    /\ FilterQuiet
    /\ ConfigQuiet
    /\ columns = <<SettingsColumnRec>>
    /\ autoRefresh = DefaultAutoRefresh
    /\ filters \in FilterLists
    /\ display = DefaultDisplay
    /\ currentColumnIndex = 0
    /\ storedConfig = ConfigOf(columns, autoRefresh, filters, display, currentColumnIndex)

FilterNext ==
    \/ \E ps \in LoadedDocuments : FrameLoad(ps)
    \/ \E p \in NewPosts : Mutate(p)
    \/ MutateOther
    \/ \E id \in {"spam", "broken", "empty", "retweets", "jack"} : toggleFilter(id)

SpecFilter == FilterInit /\ [][FilterNext]_vars

(***************************************************************************)
(* Properties of the content filter engine.                                *)
(***************************************************************************)
\* an enabled rule that defines textPattern and nothing else
TextOnly(rule) ==
    /\ rule.enabled
    /\ Truthy(rule.textPattern)
    /\ ~Truthy(rule.screenName)
    /\ rule.isRetweet = "undefined"
    /\ rule.hasMedia = "undefined"

\* the words a pattern matches; none for a pattern that does not compile
WordsOf ==
    [p \in Patterns |-> IF RegExpOf(p).ok THEN RegExpOf(p).words ELSE {}]

\* the patterns that compile
Compiles == {p \in Patterns : RegExpOf(p).ok}

\* the body text of the post has a part the pattern matches
BodyMatches(pattern, post) ==
    /\ post.tweetText # Null
    /\ \E w \in WordsOf[pattern] : \E i \in 1..(Len(post.tweetText) + 1), j \in 0..Len(post.tweetText) :
          SubSeq(post.tweetText, i, j) = w

\* C7: in a pass whose rules all define textPattern only, a post that was
\* unprocessed is hidden if and only if its body text matches the pattern
\* of one of the rules, so with a single rule exactly the posts matching
\* its pattern; a rule whose pattern does not compile hides nothing, and
\* with it the pass raises no error, evaluates the other rules and marks
\* every post.
C7_TextRulesHideMatchingPosts ==
    [][( /\ lastPass'.ran
         /\ \A k \in 1..Len(activeFilters') : TextOnly(activeFilters'[k]) )
       => /\ ~lastPass'.threw
          /\ \A i \in 1..Len(posts') : posts'[i].processed
          /\ \A i \in lastPass'.fresh :
                /\ posts'[i].display = "none" <=>
                      \E k \in 1..Len(activeFilters') : BodyMatches(activeFilters'[k].textPattern, posts'[i])
                /\ posts'[i].display # "none" => posts'[i].display = ""
                /\ \A k \in 1..Len(activeFilters') :
                      activeFilters'[k].textPattern \notin Compiles => posts'[i].hiddenBy # activeFilters'[k].id
          /\ \A i \in (1..Len(posts')) \ lastPass'.fresh : posts'[i] = posts[i]]_vars

\* A pass with the rule of the unbalanced pattern before the rule (spam|ad)
\* has met a post of each kind: the post about spam is hidden by the second
\* rule, the post saying hello is processed and visible, and the error of
\* the first rule was logged for both.
C7_Witness ==
    /\ lastPass.ran
    /\ lastPass.fresh = {1, 2}
    /\ lastPass.errors = 2
    /\ activeFilters = <<RuleBroken, RuleSpam>>
    /\ posts[1] = [PostHello EXCEPT !.processed = TRUE]
    /\ posts[2] = [PostSpam EXCEPT !.processed = TRUE, !.display = "none", !.hiddenBy = "spam"]

(***************************************************************************)
(* Export and import of the configuration (SettingsColumn.tsx, the         *)
(* storage module, loadFromStorage).  An imported document can hold any    *)
(* JSON, so here the configuration is held as JavaScript values: a value   *)
(* carries its kind, an object its members in insertion order.             *)
(***************************************************************************)
Undefined == [kind |-> "undefined"]

JsNull == [kind |-> "null"]

JsNaN == [kind |-> "NaN"]

JsBool(b) == [kind |-> "boolean", b |-> b]

JsNum(n) == [kind |-> "number", n |-> n]

JsStr(s) == [kind |-> "string", s |-> s]

JsArr(items) == [kind |-> "array", items |-> items]

Member(key, value) == [key |-> key, value |-> value]

JsObj(members) == [kind |-> "object", members |-> members]

\* typeof v
TypeOf(v) ==
    CASE v.kind \in {"null", "array", "object"} -> "object"
      [] v.kind = "NaN" -> "number"
      [] OTHER -> v.kind

\* Array.isArray(v)
IsArray(v) == v.kind = "array"

\* v in a condition
JsTruthy(v) ==
    CASE v.kind \in {"undefined", "null", "NaN"} -> FALSE
      [] v.kind = "boolean" -> v.b
      [] v.kind = "number" -> v.n # 0
      [] v.kind = "string" -> v.s # EmptyStr
      [] OTHER -> TRUE

Keys(v) == IF v.kind = "object" THEN {v.members[i].key : i \in 1..Len(v.members)} ELSE {}

\* v[key] (v is not null or undefined)
Get(v, key) ==
    IF key \in Keys(v)
    THEN v.members[CHOOSE i \in 1..Len(v.members) : v.members[i].key = key].value
    ELSE Undefined

\* the object v after v[key] = value
Put(v, key, value) ==
    IF key \in Keys(v)
    THEN JsObj([i \in 1..Len(v.members) |->
                  IF v.members[i].key = key THEN Member(key, value) ELSE v.members[i]])
    ELSE JsObj(Append(v.members, Member(key, value)))

RECURSIVE PutAll(_, _, _)

PutAll(v, members, i) ==
    IF i > Len(members) THEN v
    ELSE PutAll(Put(v, members[i].key, members[i].value), members, i + 1)

\* { ...a, ...b }: own members of both, those of b winning, an undefined
\* member included; spreading null or undefined adds nothing
Spread(a, b) ==
    PutAll(PutAll(JsObj(<< >>), IF a.kind = "object" THEN a.members ELSE << >>, 1),
           IF b.kind = "object" THEN b.members ELSE << >>, 1)

\* a ?? b
NullishOr(a, b) == IF a.kind \in {"undefined", "null"} THEN b ELSE a

RECURSIVE JSONFormNullForUndefined(_)

\* a serialisation that writes null for an undefined member
JSONFormNullForUndefined(v) ==
    CASE v.kind = "object" ->
            JsObj([i \in 1..Len(v.members) |->
                     Member(v.members[i].key,
                            IF v.members[i].value.kind = "undefined" THEN JsNull
                            ELSE JSONFormNullForUndefined(v.members[i].value))])
      [] v.kind = "array" ->
            JsArr([i \in 1..Len(v.items) |->
                     IF v.items[i].kind = "undefined" THEN JsNull
                     ELSE JSONFormNullForUndefined(v.items[i])])
      [] v.kind = "NaN" -> JsNull
      [] OTHER -> v

RECURSIVE JSONForm(_)

\* What JSON.stringify writes for v: a member whose value is undefined is
\* left out, an undefined array element and NaN are written as null.
JSONForm(v) ==
    CASE v.kind = "object" ->
            LET kept == SelectSeq(v.members, LAMBDA m : m.value.kind # "undefined")
            IN  JsObj([i \in 1..Len(kept) |-> Member(kept[i].key, JSONForm(kept[i].value))])
      [] v.kind = "array" ->
            JsArr([i \in 1..Len(v.items) |->
                     IF v.items[i].kind = "undefined" THEN JsNull ELSE JSONForm(v.items[i])])
      [] v.kind = "NaN" -> JsNull
      [] OTHER -> v

\* the text of a file: a JSON document, or text that is not JSON
JsonText(v) == [wellFormed |-> TRUE, value |-> v]

BrokenText == [wellFormed |-> FALSE, value |-> Undefined]

\* JSON.stringify(value, null, 2)
JSONStringify(v) == JsonText(JSONForm(v))

\* JSON.parse(text): the value, or a SyntaxError
JSONParse(text) == [threw |-> ~text.wellFormed, value |-> text.value]

\* parseInt(text, 10): leading white space, a sign, then digits
ParseInt(text) ==
    LET t == Trim(text)
        neg == t # EmptyStr /\ t[1] = "-"
        u == IF t # EmptyStr /\ t[1] \in {"-", "+"} THEN SubSeq(t, 2, Len(t)) ELSE t
        k == IF \A i \in 1..Len(u) : u[i] \in DigitChars THEN Len(u)
             ELSE (CHOOSE i \in 1..Len(u) : u[i] \notin DigitChars /\ \A j \in 1..(i - 1) : u[j] \in DigitChars) - 1
    IN  IF k = 0 THEN JsNaN
        ELSE JsNum((IF neg THEN -1 ELSE 1) * DecimalValue(SubSeq(u, 1, k)))

\* DEFAULT_CONFIG
DEFAULT_CONFIG ==
    JsObj(<<
      Member("columns", JsArr(<<
         JsObj(<<Member("id", JsStr(<<"s","e","t","t","i","n","g","s">>)), Member("title", JsStr(TitleSettingsJa)),
                 Member("currentUrl", JsStr(EmptyStr)),
                 Member("config", JsObj(<<Member("type", JsStr(<<"s","e","t","t","i","n","g","s">>))>>))>>)>>)),
      Member("autoRefresh", JsObj(<<Member("enabled", JsBool(FALSE)), Member("interval", JsNum(60))>>)),
      Member("filters", JsArr(<< >>)),
      Member("display", JsObj(<<
         Member("fontSize", JsNum(100)),
         Member("scrollButtonPosition", JsStr(<<"l","e","f","t">>)),
         Member("scrollToTopVisibility", JsStr(<<"a","l","w","a","y","s">>)),
         Member("scrollToBottomVisibility", JsStr(<<"a","l","w","a","y","s">>)),
         Member("hideAds", JsBool(TRUE)),
         Member("hideListHeaders", JsBool(TRUE)),
         Member("hidePostMenuButton", JsBool(TRUE)),
         Member("hideRecommendedUsers", JsBool(FALSE)),
         Member("hideVerificationUpsell", JsBool(FALSE)),
         Member("bottomBannerMode", JsStr(<<"h","o","m","e","-","o","n","l","y">>))>>))>>)

\* validateConfig of the settings column
validateConfig(config) ==
    /\ JsTruthy(config)
    /\ TypeOf(config) = "object"
    /\ IsArray(Get(config, "columns"))
    /\ JsTruthy(Get(config, "autoRefresh"))
    /\ TypeOf(Get(config, "autoRefresh")) = "object"
    /\ IsArray(Get(config, "filters"))
    /\ TypeOf(Get(Get(config, "autoRefresh"), "enabled")) = "boolean"
    /\ TypeOf(Get(Get(config, "autoRefresh"), "interval")) = "number"

\* loadConfig(): what chrome.storage holds under STORAGE_KEY, else
\* DEFAULT_CONFIG; a rejected read is logged and answered with DEFAULT_CONFIG
loadConfig(stored, rejected) == IF ~rejected /\ JsTruthy(stored) THEN stored ELSE DEFAULT_CONFIG

\* The store after loadFromStorage() has read config: an index out of
\* range becomes 0, display is laid over the defaults.
LoadedStore(config) ==
    LET restored == NullishOr(Get(config, "currentColumnIndex"), JsNum(0))
        cols == Get(config, "columns")
    IN  [columns |-> cols,
         autoRefresh |-> Get(config, "autoRefresh"),
         filters |-> Get(config, "filters"),
         display |-> Spread(Get(DEFAULT_CONFIG, "display"),
                            IF JsTruthy(Get(config, "display")) THEN Get(config, "display") ELSE JsObj(<< >>)),
         currentColumnIndex |->
            IF restored.kind = "number" /\ restored.n >= Len(cols.items) THEN JsNum(0) ELSE restored]

\* the AppConfig object saveToStorage() builds from the store
SavedConfig(cols, ar, fs, disp, idx) ==
    JsObj(<<Member("columns", cols), Member("autoRefresh", ar), Member("filters", fs),
            Member("display", disp), Member("currentColumnIndex", idx)>>)

\* the texts typed into the number fields of the settings
FontSizeTexts == {<<"1","2","0">>, <<"a","b","c">>}

\* the filter form: name, screenName, textPattern, isRetweet, hasMedia
FilterForm(name, screenName, textPattern, isRetweet, hasMedia) ==
    [name |-> name, screenName |-> screenName, textPattern |-> textPattern,
     isRetweet |-> isRetweet, hasMedia |-> hasMedia]

FormSpam == FilterForm(<<" ","a","d","s"," ">>, EmptyStr, PatternSpamOrAd, Undefined, Undefined)

FormBroken == FilterForm(<<"b","r","o","k","e","n">>, EmptyStr, PatternUnbalanced, Undefined, Undefined)

FormNoCondition == FilterForm(<<"a","n","y">>, EmptyStr, EmptyStr, Undefined, Undefined)

FilterForms == {FormSpam, FormBroken, FormNoCondition}

\* `filter-${Date.now()}` and `column-${Date.now()}`
FilterId(time) == JsStr(<<"f","i","l","t","e","r","-">> \o <<ToString(time)>>)

ColumnId(time) == JsStr(<<"c","o","l","u","m","n","-">> \o <<ToString(time)>>)

\* the files a user can pick besides one the extension exported
FileOldVersion ==
    JsonText(JsObj(<<Member("columns", Get(DEFAULT_CONFIG, "columns")),
                     Member("autoRefresh", Get(DEFAULT_CONFIG, "autoRefresh")),
                     Member("filters", JsArr(<<JsObj(<<Member("id", JsStr(<<"f","1">>)), Member("name", JsStr(<<"o","l","d">>)),
                                                       Member("enabled", JsBool(FALSE)),
                                                       Member("textPattern", JsStr(PatternUnbalanced)),
                                                       Member("isRetweet", JsNull)>>)>>)),
                     Member("display", JsObj(<<Member("fontSize", JsNum(90))>>)),
                     Member("currentColumnIndex", JsNum(4))>>))

FileTextInterval ==
    JsonText(JsObj(<<Member("columns", JsArr(<< >>)),
                     Member("autoRefresh", JsObj(<<Member("enabled", JsBool(TRUE)), Member("interval", JsStr(<<"3","0">>))>>)),
                     Member("filters", JsArr(<< >>))>>))

FileNull == JsonText(JsNull)

PickedFiles == {FileOldVersion, FileTextInterval, FileNull, BrokenText}

unchangedByConfig == <<navVars, sectionVars, filterVars, rateLimitState, rateLimitStored, lastRequest, rateLimits, changes, cleared, loadPending,
                       faulty, isLoading>>

\* the members handleSaveFilter takes from the form
FormMembers(form) ==
    << Member("name", JsStr(Trim(form.name))),
       Member("screenName", IF Trim(form.screenName) # EmptyStr THEN JsStr(Trim(form.screenName)) ELSE Undefined),
       Member("textPattern", IF Trim(form.textPattern) # EmptyStr THEN JsStr(Trim(form.textPattern)) ELSE Undefined),
       Member("isRetweet", form.isRetweet),
       Member("hasMedia", form.hasMedia) >>

\* the form passes the checks of handleSaveFilter
FormAccepted(form) ==
    /\ Trim(form.name) # EmptyStr
    /\ form.textPattern # EmptyStr => RegExps[form.textPattern].ok
    /\ ~( /\ form.screenName = EmptyStr
          /\ form.textPattern = EmptyStr
          /\ form.isRetweet.kind = "undefined"
          /\ form.hasMedia.kind = "undefined" )

\* parseInt of the texts typed
TypedNumbers == [text \in FontSizeTexts |-> ParseInt(text)]

\* what handleSaveFilter makes of the forms
CheckedForms == [form \in FilterForms |-> [accepted |-> FormAccepted(form), members |-> FormMembers(form)]]

\* handleFontSizeChange with the text of the field
handleFontSizeChange(text) ==
    /\ \E fontSize \in {TypedNumbers[text]} :
          IF fontSize.kind # "NaN"
          THEN /\ display' = Spread(display, JsObj(<<Member("fontSize", fontSize)>>))
               /\ Save(SavedConfig(columns, autoRefresh, filters, display', currentColumnIndex))
          ELSE /\ UNCHANGED <<display, storedConfig>>
               /\ lastStorage' = NoStorage
    /\ lastImport' = NoImport
    /\ lastColumnOp' = NoColumnOp
    /\ UNCHANGED <<columns, autoRefresh, filters, currentColumnIndex, exportedFile, now, unchangedByConfig>>

\* handleSaveFilter: the form is checked; with editing = 0 addFilter appends
\* a new rule, else updateFilter lays the form over rule number editing
handleSaveFilter(form, editing) ==
    /\ editing = 0 => now < MaxClock
    /\ \E accepted \in {CheckedForms[form].accepted}, members \in {CheckedForms[form].members} :
          IF ~accepted
          THEN /\ UNCHANGED <<filters, storedConfig, now>>
               /\ lastStorage' = NoStorage
          ELSE /\ filters' =
                     IF editing = 0
                     THEN JsArr(Append(filters.items,
                                       JsObj(<<Member("id", FilterId(now + 1))>> \o <<members[1]>>
                                             \o <<Member("enabled", JsBool(TRUE))>> \o SubSeq(members, 2, 5))))
                     ELSE JsArr([i \in 1..Len(filters.items) |->
                                   IF Get(filters.items[i], "id") = Get(filters.items[editing], "id")
                                   THEN Spread(filters.items[i], JsObj(members))
                                   ELSE filters.items[i]])
               /\ now' = IF editing = 0 THEN now + 1 ELSE now
               /\ Save(SavedConfig(columns, autoRefresh, filters', display, currentColumnIndex))
    /\ lastImport' = NoImport
    /\ lastColumnOp' = NoColumnOp
    /\ UNCHANGED <<columns, autoRefresh, display, currentColumnIndex, exportedFile, unchangedByConfig>>

\* columns.findIndex((c) => c.config.type === "settings"), counted from 0; -1 if none
SettingsIndex(cols) ==
    LET hits == {i \in 1..Len(cols.items) : Get(Get(cols.items[i], "config"), "type") = JsStr(<<"s","e","t","t","i","n","g","s">>)}
    IN  IF hits = {} THEN -1 ELSE (CHOOSE i \in hits : \A j \in hits : i <= j) - 1

\* handleAddColumn: addColumn puts the new column before the settings
\* column (at the end if there is none); setCurrentColumnIndex moves to it
handleAddColumn ==
    /\ now < MaxClock
    /\ now' = now + 1
    /\ \E settingsIndex \in {SettingsIndex(columns)} :
       \E newColumn \in {JsObj(<<Member("id", ColumnId(now + 1)), Member("title", JsStr(TitleHomeJa)),
                                 Member("currentUrl", JsStr(UHome)),
                                 Member("config", JsObj(<<Member("type", JsStr(<<"c","o","l","u","m","n">>))>>))>>)} :
          /\ columns' = IF settingsIndex # -1
                        THEN JsArr(SubSeq(columns.items, 1, settingsIndex) \o <<newColumn>>
                                   \o SubSeq(columns.items, settingsIndex + 1, Len(columns.items)))
                        ELSE JsArr(Append(columns.items, newColumn))
          /\ currentColumnIndex' = IF settingsIndex # -1 THEN JsNum(settingsIndex) ELSE currentColumnIndex
    /\ Save(SavedConfig(columns', autoRefresh, filters, display, currentColumnIndex'))
    /\ lastImport' = NoImport
    /\ lastColumnOp' = [NoColumnOp EXCEPT !.op = "addColumn", !.id = ColumnId(now + 1)]
    /\ UNCHANGED <<autoRefresh, filters, display, exportedFile, unchangedByConfig>>

\* handleClearSettings, confirmed: what storage holds under STORAGE_KEY is
\* removed and resetToDefault() sets the store, rateLimits included,
\* without saving it; a rejected removal is caught before resetToDefault()
handleClearSettings ==
    /\ \E rejected \in Rejections :
          /\ lastStorage' = [op |-> "remove", rejected |-> rejected, threw |-> FALSE, config |-> Null]
          /\ IF rejected
             THEN UNCHANGED <<storeVars, rateLimits, cleared>>
             ELSE /\ storedConfig' = Undefined
                  /\ columns' = Get(DEFAULT_CONFIG, "columns")
                  /\ autoRefresh' = Get(DEFAULT_CONFIG, "autoRefresh")
                  /\ filters' = Get(DEFAULT_CONFIG, "filters")
                  /\ display' = Get(DEFAULT_CONFIG, "display")
                  /\ currentColumnIndex' = JsNum(0)
                  /\ rateLimits' = DEFAULT_RATE_LIMIT_STATE
                  /\ cleared' = TRUE
    /\ lastImport' = NoImport
    /\ lastRequest' = NoRequest
    /\ lastColumnOp' = NoColumnOp
    /\ UNCHANGED <<exportedFile, now, rateLimitState, rateLimitStored, changes, loadPending, navVars, sectionVars, filterVars,
                   faulty, isLoading>>

\* handleExport: the stored configuration, if there is one, is written to
\* a file as JSON
handleExport ==
    /\ exportedFile' = IF JsTruthy(storedConfig)
                       THEN [has |-> TRUE, config |-> storedConfig, text |-> JSONStringify(storedConfig)]
                       ELSE exportedFile
    /\ lastImport' = NoImport
    /\ lastStorage' = NoStorage
    /\ lastColumnOp' = NoColumnOp
    /\ UNCHANGED <<storeVars, now, unchangedByConfig>>

\* handleFileChange with the text of the file picked: the text is parsed
\* and validated; a valid configuration is stored as it is, the page is
\* reloaded and the store reads the configuration with loadFromStorage();
\* a rejected write is caught and the page stays
handleFileChange(text) ==
    /\ \E parsed \in {JSONParse(text)} :
       \E accepted \in {~parsed.threw /\ validateConfig(parsed.value)} :
       \E rejected \in Rejections, readRejected \in Rejections :
          /\ lastImport' = [ran |-> TRUE, text |-> text, accepted |-> accepted /\ ~rejected]
          /\ lastStorage' = IF accepted
                            THEN [op |-> "set", rejected |-> rejected, threw |-> FALSE, config |-> parsed.value]
                            ELSE NoStorage
          /\ IF accepted /\ ~rejected
             THEN \E store \in {LoadedStore(loadConfig(parsed.value, readRejected))} :
                     /\ storedConfig' = parsed.value
                     /\ columns' = store.columns
                     /\ autoRefresh' = store.autoRefresh
                     /\ filters' = store.filters
                     /\ display' = store.display
                     /\ currentColumnIndex' = store.currentColumnIndex
                     /\ rateLimits' = loadRateLimits(rateLimitStored)
                     /\ changes' = << >>
                     /\ loadPending' = NoLoad
             ELSE UNCHANGED <<storeVars, rateLimits, changes, loadPending>>
    /\ lastColumnOp' = NoColumnOp
    /\ UNCHANGED <<exportedFile, now, cleared, rateLimitState, rateLimitStored, lastRequest, navVars, sectionVars, filterVars,
                   faulty, isLoading>>

\* the page after its first start: nothing is stored, loadFromStorage() has
\* put DEFAULT_CONFIG into the store
ConfigInit ==
    /\ NavQuiet
    /\ RateQuiet
    /\ FilterQuiet
    /\ ConfigQuiet
    /\ storedConfig = Undefined
    /\ columns = Get(DEFAULT_CONFIG, "columns")
    /\ autoRefresh = Get(DEFAULT_CONFIG, "autoRefresh")
    /\ filters = Get(DEFAULT_CONFIG, "filters")
    /\ display = Get(DEFAULT_CONFIG, "display")
    /\ currentColumnIndex = JsNum(0)

ConfigNext ==
    \/ \E text \in FontSizeTexts : handleFontSizeChange(text)
    \/ \E form \in FilterForms, editing \in 0..Len(filters.items) : handleSaveFilter(form, editing)
    \/ handleAddColumn
    \/ handleClearSettings
    \/ handleExport
    \/ \E text \in PickedFiles \cup (IF exportedFile.has THEN {exportedFile.text} ELSE {}) : handleFileChange(text)

SpecConfig == ConfigInit /\ [][ConfigNext]_vars

(***************************************************************************)
(* Properties of export and import.                                        *)
(***************************************************************************)
RECURSIVE EqualByValue(_, _)

\* a and b are equal as values: the same kind, the same elements in order,
\* and for objects the same value under every key (a key that is missing
\* reads as undefined)
EqualByValue(a, b) ==
    /\ a.kind = b.kind
    /\ CASE a.kind = "object" ->
               \A key \in Keys(a) \cup Keys(b) : EqualByValue(Get(a, key), Get(b, key))
         [] a.kind = "array" ->
               /\ Len(a.items) = Len(b.items)
               /\ \A i \in 1..Len(a.items) : EqualByValue(a.items[i], b.items[i])
         [] OTHER -> a = b

\* the import in this step read the file the last export wrote
ImportsExport ==
    /\ exportedFile.has
    /\ lastImport'.ran
    /\ lastImport'.text = exportedFile.text

\* C8: importing the file an export wrote is accepted and stores a
\* configuration whose columns, filters and display equal by value those
\* of the configuration that was exported; the store after the reload
\* holds these columns and filters, and this display laid over the
\* defaults.
C8_ExportImportRoundTrip ==
    [][ImportsExport =>
          /\ lastImport'.accepted
          /\ \A part \in {"columns", "filters", "display"} :
                EqualByValue(Get(storedConfig', part), Get(exportedFile.config, part))
          /\ EqualByValue(columns', Get(exportedFile.config, "columns"))
          /\ EqualByValue(filters', Get(exportedFile.config, "filters"))
          /\ EqualByValue(display', LoadedStore(exportedFile.config).display)]_vars

\* An export of a configuration with a column added, a rule whose
\* screenName is undefined and a font size of 120 has been imported: the
\* file left the undefined members out, and the store holds the column,
\* the rule and the font size.
C8_Witness ==
    /\ lastImport.ran
    /\ lastImport.accepted
    /\ exportedFile.has
    /\ lastImport.text = exportedFile.text
    /\ exportedFile.text.value # exportedFile.config
    /\ storedConfig = exportedFile.text.value
    /\ Len(columns.items) = 2
    /\ Len(filters.items) = 1
    /\ "screenName" \in Keys(Get(exportedFile.config, "filters").items[1])
    /\ "screenName" \notin Keys(filters.items[1])
    /\ Get(filters.items[1], "textPattern") = JsStr(PatternSpamOrAd)
    /\ Get(display, "fontSize") = JsNum(120)

(***************************************************************************)
(* The rate limits between the worker, storage and the page.               *)
(***************************************************************************)
\* The page is loaded anew: the store starts with its initial rateLimits,
\* App runs loadFromStorage(), calls loadRateLimits(), whose read of
\* storage is answered later, and watches storage from then on; the
\* changes raised for the page before are gone with it.
AppMount ==
    /\ \E rejected \in Rejections :
       \E store \in {LoadedStore(loadConfig(storedConfig, rejected))} :
          /\ lastStorage' = [op |-> "load", rejected |-> rejected, threw |-> FALSE, config |-> Null]
          /\ columns' = store.columns
          /\ autoRefresh' = store.autoRefresh
          /\ filters' = store.filters
          /\ display' = store.display
          /\ currentColumnIndex' = store.currentColumnIndex
    /\ rateLimits' = DEFAULT_RATE_LIMIT_STATE
    /\ loadPending' = [has |-> TRUE, limits |-> loadRateLimits(rateLimitStored)]
    /\ changes' = << >>
    /\ lastRequest' = NoRequest
    /\ lastImport' = NoImport
    /\ isLoading' = FALSE
    /\ lastColumnOp' = NoColumnOp
    /\ UNCHANGED <<storedConfig, exportedFile, faulty, now, cleared, rateLimitState, rateLimitStored,
                   navVars, sectionVars, filterVars>>

\* loadRateLimits().then((limits) => setRateLimits(limits)): the promise of
\* the read made when the page was loaded is resolved
loadRateLimitsResolved ==
    /\ loadPending.has
    /\ rateLimits' = loadPending.limits
    /\ loadPending' = NoLoad
    /\ lastRequest' = NoRequest
    /\ UNCHANGED <<rateLimitState, rateLimitStored, now, changes, cleared, navVars, lastColumnOp, sectionVars, storeVars, filterVars, configVars>>

\* the page after its first start and the worker before its first response
RateInit == ConfigInit

RateNext ==
    \/ onHeadersReceived
    \/ WorkerStart
    \/ rateLimitsChanged
    \/ AppMount
    \/ loadRateLimitsResolved
    \/ handleClearSettings

SpecRate == RateInit /\ [][RateNext]_vars

\* the record holds a quota: limit, remaining or resetAt is a number
HoldsQuota(record) == Triple(record) # <<NullNum, NullNum, NullNum>>

\* C18: over the responses the worker handles and the restarts of the
\* worker, a category whose stored record holds a quota keeps a quota in
\* storage, and a response of one category leaves the stored record of
\* every other category as it is.
C18_StoredQuotaSurvivesRestart ==
    [][(lastRequest'.seen \/ rateLimitState' # rateLimitState) =>
          \A c \in RateLimitCategories :
             /\ (rateLimitStored.has /\ HoldsQuota(rateLimitStored.map[c]))
                   => HoldsQuota(rateLimitStored'.map[c])
             /\ (lastRequest'.seen /\ c # lastRequest'.category)
                   => rateLimitStored'.map[c] = rateLimitStored.map[c]]_vars

\* C19: from handleClearSettings until the worker handles the next
\* categorised response with a quota, the map the page shows, the stored
\* map and the map of the worker are all DEFAULT_RATE_LIMIT_STATE, also
\* after the page is loaded anew.
C19_ClearSettingsForgetsQuotas ==
    cleared =>
       /\ rateLimits = DEFAULT_RATE_LIMIT_STATE
       /\ rateLimitStored.map = DEFAULT_RATE_LIMIT_STATE
       /\ rateLimitState = DEFAULT_RATE_LIMIT_STATE

\* for each request target modelled, the entries of RATE_LIMIT_PATTERNS
\* one of whose patterns matches it, capital and small letters alike
EntriesMatching ==
    [u \in RequestUrls |->
        {i \in 1..Len(RATE_LIMIT_PATTERNS) :
            \E j \in 1..Len(RATE_LIMIT_PATTERNS[i].patterns) :
               Includes(ToLower(u), ToLower(RATE_LIMIT_PATTERNS[i].patterns[j]))}]

\* C20: the category of a response is the category of the earliest entry
\* of RATE_LIMIT_PATTERNS one of whose patterns matches the request target,
\* letters compared without regard to case, also when patterns of several
\* entries match; and a response changes the record of no category but its
\* own.
C20_EarliestEntryClassifies ==
    [][lastRequest'.seen =>
          LET hits == EntriesMatching[lastRequest'.url]
          IN  /\ hits # {} =>
                    \E i \in hits :
                       /\ \A j \in hits : i <= j
                       /\ lastRequest'.category = RATE_LIMIT_PATTERNS[i].category
              /\ \A c \in RateLimitCategories :
                    rateLimitState'[c] # rateLimitState[c] => c = lastRequest'.category]_vars

\* A response with quotas for a search whose words are CreateTweet and
\* HomeLatestTimeline, matched by the entries tweetPost, homeLatestTimeline
\* and searchLatest, was counted for tweetPost alone; and a response for
\* the home timeline written in small letters had been counted for
\* homeLatestTimeline before.
C20_Witness ==
    /\ lastRequest.seen
    /\ lastRequest.url = UrlSearchWords
    /\ EntriesMatching[UrlSearchWords] = {1, 3, 5}
    /\ lastRequest.category = "tweetPost"
    /\ lastRequest.wrote
    /\ HoldsQuota(rateLimitState["tweetPost"])
    /\ rateLimitState["searchLatest"] = NoRateLimitInfo
    /\ rateLimitState["homeLatestTimeline"].lastUpdated = Num(1)

(***************************************************************************)
(* More properties of the content filter engine.                           *)
(***************************************************************************)
\* the link matchesFilter takes the author of a post from
AuthorLink(post) == IF post.socialContext THEN post.firstLink ELSE post.userNameLink

\* every predicate the rule defines holds of the post; a predicate is
\* defined when its string is not empty or its flag is not undefined
RuleHolds(rule, post) ==
    /\ Truthy(rule.screenName) =>
          /\ AuthorLink(post) # Null
          /\ ToLower(ScreenNameOfHref(AuthorLink(post))) = ToLower(rule.screenName)
    /\ Truthy(rule.textPattern) => BodyMatches(rule.textPattern, post)
    /\ rule.isRetweet # "undefined" => (rule.isRetweet = "true" <=> post.socialContext)
    /\ rule.hasMedia # "undefined" => (rule.hasMedia = "true" <=> post.media)

\* C21: a pass hides a post that was unprocessed if and only if a rule
\* that is enabled in the store when the pass runs holds of it; a rule that
\* is disabled then hides nothing, whatever the order of the rules.
C21_HiddenIffEnabledRuleHolds ==
    [][lastPass'.ran =>
          \A i \in lastPass'.fresh :
             /\ posts'[i].display = "none" <=>
                   \E k \in 1..Len(filters') : filters'[k].enabled /\ RuleHolds(filters'[k], posts'[i])
             /\ \A k \in 1..Len(filters') :
                   ~filters'[k].enabled => posts'[i].hiddenBy # filters'[k].id]_vars

\* C22: a pass leaves every post of the document marked as processed,
\* hidden or not; a pass of the MutationObserver leaves a post that was
\* marked before as it was, and changes nothing in the document when it
\* finds no unmarked post.
C22_MarkedPostsAreSkipped ==
    [][lastPass'.ran =>
          /\ \A i \in 1..Len(posts') : posts'[i].processed
          /\ ~lastPass'.load =>
                /\ \A i \in 1..Len(posts) : posts[i].processed => posts'[i] = posts[i]
                /\ lastPass'.fresh = {} => posts' = posts]_vars

\* A pass that found no unmarked post has run over a document with a post
\* an earlier pass had hidden and a post an earlier pass had left visible.
C22_Witness ==
    /\ lastPass.ran
    /\ ~lastPass.load
    /\ lastPass.fresh = {}
    /\ Len(posts) = 2
    /\ posts[1] = [PostHello EXCEPT !.processed = TRUE]
    /\ posts[2] = [PostSpam EXCEPT !.processed = TRUE, !.display = "none", !.hiddenBy = "spam"]

\* C23: a post the page adds to a live document is evaluated by the pass
\* that first sees it against the rules of the store as they are then: it
\* is marked, and it is hidden if and only if a rule enabled in the store
\* holds of it, also when no rule was enabled as the document loaded.
C23_NewPostsMeetCurrentRules ==
    [][( /\ Len(posts') = Len(posts) + 1
         /\ \A i \in 1..Len(posts) : posts'[i] = posts[i] )
       => LET new == posts'[Len(posts')]
          IN  \/ /\ \A k \in 1..Len(filters') : ~filters'[k].enabled
                 /\ new.display = ""
              \/ /\ \E k \in 1..Len(filters') : filters'[k].enabled
                 /\ new.processed
                 /\ new.display = "none" <=>
                       \E k \in 1..Len(filters') :
                          filters'[k].enabled /\ RuleHolds(filters'[k], new)]_vars

(***************************************************************************)
(* The route functions on their own: shouldRecordUrl (types/index.ts) and  *)
(* getColumnTypeFromUrl, called with the strings below.  The strings have  *)
(* no percent-escapes, dot segments or white space, which new URL would    *)
(* rewrite.                                                                *)
(***************************************************************************)
RouteBases == { Origin, <<"h","t","t","p",":","/","/","x",".","c","o","m">>, <<"h","t","t","p","s",":","/","/","t","w","i","t","t","e","r",".","c","o","m">>, EmptyStr, <<"x",".","c","o","m">> }

RoutePaths ==
    { EmptyStr, <<"/">>, <<"/","h","o","m","e">>, <<"/","h","o","m","e","/">>, <<"/","H","o","m","e">>, <<"/","n","o","t","i","f","i","c","a","t","i","o","n","s">>, <<"/","n","o","t","i","f","i","c","a","t","i","o","n","s","/","m","e","n","t","i","o","n","s">>,
      <<"/","m","e","s","s","a","g","e","s">>, <<"/","m","e","s","s","a","g","e","s","/">>, <<"/","m","e","s","s","a","g","e","s","/","1","-","2">>, <<"/","m","e","s","s","a","g","e","s","x">>, <<"/","s","e","a","r","c","h">>, <<"/","s","e","a","r","c","h","/">>,
      <<"/","i","/","l","i","s","t","s">>, <<"/","i","/","l","i","s","t","s","/">>, <<"/","i","/","l","i","s","t","s","/","1","2","3","4","5">>, <<"/","e","x","p","l","o","r","e">>, <<"/","e","x","p","l","o","r","e","/","t","a","b","s","/","f","o","r","-","y","o","u">>,
      <<"/","e","x","p","l","o","r","e","m","o","r","e">>, <<"/","i","/","b","o","o","k","m","a","r","k","s">>, <<"/","i","/","b","o","o","k","m","a","r","k","s","/","a","l","l">>, <<"/","i","/","c","o","m","m","u","n","i","t","i","e","s","/">>, <<"/","i","/","c","o","m","m","u","n","i","t","i","e","s","/","9">>,
      <<"/","j","a","c","k">>, <<"/","j","a","c","k","/","s","t","a","t","u","s","/","1">>, <<"/","a","_","2","3","4","5","6","7","8","9","0","1","2","3","4","5","6">>, <<"/","a","_","2","3","4","5","6","7","8","9","0","1","2","3","4","5">>, <<"/","a","-","b">>, <<"/","i">>,
      <<"/","s","e","t","t","i","n","g","s","/","p","r","o","f","i","l","e">> }

RouteSuffixes == { EmptyStr, <<"?","q","=","a">>, <<"#","t","o","p">> }

RouteInputs ==
    { b \o p \o x : b \in RouteBases, p \in RoutePaths, x \in RouteSuffixes }
       \cup { AboutBlank, HttpsScheme }

\* a caller hands the string u to both functions
ClassifyRoute(u) ==
    /\ routeInput' = u
    /\ routeOutcome' = [ran |-> TRUE, record |-> shouldRecordUrl(u), type |-> getColumnTypeFromUrl(u)]
    /\ UNCHANGED <<loc, dom, pendingSrc, lastUrlRef, lastRecordedUrlRef, resolvedNamesRef,
                   timers, lastCall, stay, navCount, extracted,
                   storeVars, rateVars, filterVars, configVars, lastColumnOp, sectionVars>>

RouteInit == ConfigInit

RouteNext == \E u \in RouteInputs : ClassifyRoute(u)

SpecRoute == RouteInit /\ [][RouteNext]_vars

\* the strings new URL accepts: a scheme of letters, then "//" and a host,
\* or a path that holds no "//"
WellFormed(u) ==
    \E i \in 2..Len(u) :
       /\ u[i] = ":"
       /\ \A j \in 1..(i - 1) : u[j] \in LowerChars \cup UpperChars
       /\ \/ /\ Len(u) >= i + 3
             /\ u[i + 1] = "/" /\ u[i + 2] = "/"
             /\ u[i + 3] \notin {"/", "?", "#"}
          \/ ~Includes(u, <<":","/","/">>)

\* C24: for every string, shouldRecordUrl is true exactly when
\* getColumnTypeFromUrl is not "unknown"; for a string that is no URL the
\* two return false and "unknown".
C24_WhitelistIsRouteClassification ==
    routeOutcome.ran =>
       /\ routeOutcome.record <=> routeOutcome.type # "unknown"
       /\ ~WellFormed(routeInput) => (~routeOutcome.record /\ routeOutcome.type = "unknown")

\* Both functions were called with x.com/home, a string without a scheme.
C24_Witness ==
    /\ routeOutcome.ran
    /\ routeInput = <<"x",".","c","o","m","/","h","o","m","e">>
    /\ ~WellFormed(routeInput)
    /\ ~routeOutcome.record
    /\ routeOutcome.type = "unknown"

(***************************************************************************)
(* Two views side by side: a page with the columns A and B, each with its  *)
(* own hook (useIframeUrlSync) and its own iframe.                         *)
(***************************************************************************)
ViewsInit ==
    /\ columns = << [id |-> "A", title |-> PlaceholderList, currentUrl |-> UList, type |-> "column"],
                    [id |-> "B", title |-> TitleHomeJa, currentUrl |-> UHome, type |-> "column"],
                    SettingsColumnRec >>
    /\ autoRefresh = DefaultAutoRefresh
    /\ filters = << >>
    /\ display = DefaultDisplay
    /\ currentColumnIndex = 0
    /\ storedConfig = ConfigOf(columns, autoRefresh, filters, display, currentColumnIndex)
    /\ loc = [v \in Views |-> AboutBlank]
    /\ dom = [v \in Views |-> NoDoc]
    /\ pendingSrc = [v \in Views |-> FindColumn(columns, v).currentUrl]
    /\ lastUrlRef = [v \in Views |-> EmptyStr]
    /\ lastRecordedUrlRef = [v \in Views |-> EmptyStr]
    /\ resolvedNamesRef = [v \in Views |-> [u \in Urls |-> Null]]
    /\ timers = [v \in Views |-> EmptyBag]
    /\ lastCall = [v \in Views |-> NoCall]
    /\ stay = [v \in Views |-> [calls |-> 0, cold |-> FALSE, named |-> TRUE]]
    /\ navCount = 0
    /\ extracted = [v \in Views |-> [u \in Urls |-> Null]]
    /\ routeInput = EmptyStr
    /\ routeOutcome = NoOutcome
    /\ lastColumnOp = NoColumnOp
    /\ SectionQuiet
    /\ RateQuiet
    /\ FilterQuiet
    /\ ConfigQuiet

\* where the users of the two views go: a post and a search
ViewsNavUrls == {UStatus, USearchQ}

\* the embedded pages are same-origin throughout: access never throws
ViewsNext ==
    \/ \E v \in Views : Trigger(v, "ok")
    \/ \E v \in Views : LoadCheckFire(v, "ok")
    \/ \E v \in Views : RetryFire(v)
    \/ \E v \in Views, u \in ViewsNavUrls : Navigate(v, u)
    \/ \E v \in Views : CommitSrc(v)

SpecViews == ViewsInit /\ [][ViewsNext]_vars

\* the views other than v keep their guards, their cache and their pending
\* callbacks in this step, and no call is made for them
OthersUntouched(v) ==
    \A w \in Views \ {v} :
       /\ lastUrlRef'[w] = lastUrlRef[w]
       /\ lastRecordedUrlRef'[w] = lastRecordedUrlRef[w]
       /\ resolvedNamesRef'[w] = resolvedNamesRef[w]
       /\ timers'[w] = timers[w]
       /\ pendingSrc'[w] = pendingSrc[w]
       /\ loc'[w] = loc[w]
       /\ ~lastCall'[w].made

\* the step is one of view v: a callback of its hook, a navigation of its
\* embedded page or a load of its iframe
StepOf(v) ==
    \/ lastUrlRef'[v] # lastUrlRef[v]
    \/ lastRecordedUrlRef'[v] # lastRecordedUrlRef[v]
    \/ resolvedNamesRef'[v] # resolvedNamesRef[v]
    \/ timers'[v] # timers[v]
    \/ loc'[v] # loc[v]
    \/ pendingSrc'[v] # pendingSrc[v]
    \/ lastCall'[v].made

\* C25: a step of one view leaves the guards, the cache and the pending
\* callbacks of every other view as they are and makes no call for them;
\* and a call of onUrlChange changes the column of its own view only.
C25_ViewsAreIndependent ==
    [][\A v \in Views :
          /\ StepOf(v) => OthersUntouched(v)
          /\ lastCall'[v].made =>
                /\ Len(columns') = Len(columns)
                /\ \A i \in 1..Len(columns) :
                      /\ columns'[i].id = columns[i].id
                      /\ columns[i].id # v => columns'[i] = columns[i]
                      /\ columns[i].id = v => columns'[i].currentUrl = lastCall'[v].url]_vars

\* View A has delivered the name of its list from the document while view
\* B, which has moved on from the home timeline, keeps a callback pending:
\* the column of B holds what B recorded.
C25_Witness ==
    /\ lastCall["A"].made
    /\ lastCall["A"].tier = "dom"
    /\ lastCall["A"].url = UList
    /\ FindColumn(columns, "A").currentUrl = UList
    /\ lastRecordedUrlRef["B"] # UHome
    /\ FindColumn(columns, "B").currentUrl = lastRecordedUrlRef["B"]
    /\ timers["B"] # EmptyBag

\* C26: when the page has handled the answer to its initial read or a
\* change of the stored map and nothing more is waiting to be handled,
\* the rateLimits of the store are the map storage holds.
C26_StoreShowsLatestPersistedMap ==
    [][( /\ \/ loadPending.has /\ ~loadPending'.has
            \/ Len(changes') < Len(changes)
         /\ ~loadPending'.has
         /\ changes' = << >> )
          => rateLimits' = loadRateLimits(rateLimitStored')]_vars

(***************************************************************************)
(* The store over a storage that may reject calls.                         *)
(***************************************************************************)
\* a configuration an earlier session stored
StoredEarlier ==
    SavedConfig(Get(DEFAULT_CONFIG, "columns"),
                JsObj(<<Member("enabled", JsBool(TRUE)), Member("interval", JsNum(30))>>),
                Get(DEFAULT_CONFIG, "filters"),
                Get(DEFAULT_CONFIG, "display"),
                JsNum(0))

\* the page before its first loadFromStorage(): the store as create() of
\* store/index.ts builds it
StorageInit ==
    /\ NavQuiet
    /\ RateQuiet
    /\ FilterQuiet
    /\ exportedFile = NoFile
    /\ lastImport = NoImport
    /\ faulty = TRUE
    /\ isLoading = TRUE
    /\ lastStorage = NoStorage
    /\ storedConfig \in {Undefined, StoredEarlier}
    /\ columns = JsArr(<< >>)
    /\ autoRefresh = JsObj(<<Member("enabled", JsBool(FALSE)), Member("interval", JsNum(60))>>)
    /\ filters = JsArr(<< >>)
    /\ display = Get(DEFAULT_CONFIG, "display")
    /\ currentColumnIndex = JsNum(0)

\* App shows the columns and the settings once isLoading is false
StorageNext ==
    \/ AppMount
    \/ ~isLoading /\ \E text \in FontSizeTexts : handleFontSizeChange(text)
    \/ ~isLoading /\ \E form \in FilterForms, editing \in 0..Len(filters.items) : handleSaveFilter(form, editing)
    \/ ~isLoading /\ handleAddColumn
    \/ ~isLoading /\ handleClearSettings

SpecStorage == StorageInit /\ [][StorageNext]_vars

\* C27: a store action whose write is rejected does not throw, leaves the
\* store as the action made it and storage as it was; a load whose read is
\* rejected ends with isLoading false and DEFAULT_CONFIG, or the
\* configuration the store had, in the store.
C27_StorageFailureIsRecoveredLocally ==
    [][/\ lastStorage'.op = "save" =>
             /\ ~lastStorage'.threw
             /\ SavedConfig(columns', autoRefresh', filters', display', currentColumnIndex') = lastStorage'.config
             /\ lastStorage'.rejected => storedConfig' = storedConfig
       /\ lastStorage'.op = "load" =>
             /\ ~lastStorage'.threw
             /\ ~isLoading'
             /\ lastStorage'.rejected =>
                   \/ SavedConfig(columns', autoRefresh', filters', display', currentColumnIndex')
                         = SavedConfig(Get(DEFAULT_CONFIG, "columns"), Get(DEFAULT_CONFIG, "autoRefresh"),
                                       Get(DEFAULT_CONFIG, "filters"), Get(DEFAULT_CONFIG, "display"), JsNum(0))
                   \/ <<columns', autoRefresh', filters', display', currentColumnIndex'>>
                         = <<columns, autoRefresh, filters, display, currentColumnIndex>>]_vars

\* The read of the first load was rejected although a configuration is
\* stored, so the store was given DEFAULT_CONFIG; the write of the store
\* action that then added a column was rejected as well: the store holds
\* the column, storage the configuration of the earlier session.
C27_Witness ==
    /\ lastStorage.op = "save"
    /\ lastStorage.rejected
    /\ ~isLoading
    /\ storedConfig = StoredEarlier
    /\ Len(columns.items) = 2
    /\ autoRefresh = Get(DEFAULT_CONFIG, "autoRefresh")

(***************************************************************************)
(* Properties of the order of the calls of one view.                       *)
(***************************************************************************)
\* C28: when no callback of a view is pending, the URL its column records
\* is the whitelisted location checkUrl observed last: no call for a
\* location observed earlier comes after the call for a later one.
C28_ColumnRecordsLastObservedLocation ==
    \A v \in OneView :
       (timers[v] = EmptyBag /\ lastRecordedUrlRef[v] # EmptyStr)
          => FindColumn(columns, v).currentUrl = lastRecordedUrlRef[v]

\* C29: a name a retry chain reads from the document and writes to the
\* memory cache under its URL is read while the view is at that URL.
C29_CachedNameReadAtItsUrl ==
    [][\A v \in OneView :
          (lastCall'[v].made /\ lastCall'[v].tier = "dom")
             => /\ dom'[v].read
                /\ resolvedNamesRef'[v][lastCall'[v].url] = lastCall'[v].title
                /\ loc[v] = lastCall'[v].url]_vars

(***************************************************************************)
(* The watcher under a poll that keeps ticking.                            *)
(***************************************************************************)
\* setInterval(checkUrl, 1000) ticks as long as the view is shown, and the
\* event loop runs a callback that is due
SpecNavPoll ==
    SpecNav /\ \A v \in OneView : WF_vars(Trigger(v, "ok")) /\ WF_vars(RetryFire(v))

\* the URLs of the model that pass the whitelist
RecordedUrls == {u \in Urls : UrlFacts[u].record}

\* C30: a view that is at a whitelisted URL which is not the URL the
\* watcher recorded last, and stays there, gets a call of onUrlChange for
\* that URL; no retry chain goes beyond its fifth attempt.
C30_StayIsDeliveredEventually ==
    /\ \A v \in OneView, u \in RecordedUrls :
          (loc[v] = u /\ lastRecordedUrlRef[v] # u)
             ~> (loc[v] # u \/ (lastCall[v].made /\ lastCall[v].url = u))
    /\ [](\A v \in OneView : \A t \in RetryTimers(timers[v]) : t.attempt <= MaxAttempts)

\* The view went from the search to the list and stayed; five attempts
\* later, no name found, the list is delivered with the title of its route.
C30_Witness ==
    /\ loc["A"] = UList
    /\ lastCall["A"] = Call(UList, TitleList, "fallback")
    /\ lastRecordedUrlRef["A"] = UList
    /\ navCount > 0
    /\ RetryTimers(timers["A"]) = {}

(***************************************************************************)
(* Properties of the guards of checkUrl.                                   *)
(***************************************************************************)
\* the step is a run of checkUrl for view v that read the location: the
\* view stays where it is, no retry callback read the document and no
\* document was loaded
CheckUrlRan(v) ==
    /\ loc'[v] = loc[v]
    /\ ~dom'[v].read
    /\ ~dom'[v].denied
    /\ ~(pendingSrc[v] # Null /\ pendingSrc'[v] = Null)

\* C31: a run of checkUrl that finds the location equal to lastUrlRef (or
\* finds none) changes neither guard, nor the cache, nor the pending retry
\* callbacks, nor the columns, and calls nothing; a run that finds a new
\* location outside the whitelist sets lastUrlRef to it and leaves
\* lastRecordedUrlRef, the cache, the retry callbacks and the columns as
\* they are, without a call.
C31_UnchangedOrSkippedLocation ==
    [][\A v \in OneView :
          CheckUrlRan(v) =>
             /\ (~Truthy(loc[v]) \/ loc[v] = lastUrlRef[v]) =>
                   /\ lastUrlRef'[v] = lastUrlRef[v]
                   /\ lastRecordedUrlRef'[v] = lastRecordedUrlRef[v]
                   /\ resolvedNamesRef'[v] = resolvedNamesRef[v]
                   /\ RetryTimers(timers'[v]) = RetryTimers(timers[v])
                   /\ ~lastCall'[v].made
                   /\ columns' = columns
             /\ (Truthy(loc[v]) /\ loc[v] # lastUrlRef[v] /\ ~shouldRecordUrl(loc[v])) =>
                   /\ lastUrlRef'[v] \in {loc[v], lastUrlRef[v]}
                   /\ (lastCall'[v] # lastCall[v] \/ timers'[v] # timers[v] \/ dom'[v] # dom[v])
                         => lastUrlRef'[v] = loc[v]
                   /\ lastRecordedUrlRef'[v] = lastRecordedUrlRef[v]
                   /\ resolvedNamesRef'[v] = resolvedNamesRef[v]
                   /\ RetryTimers(timers'[v]) = RetryTimers(timers[v])
                   /\ ~lastCall'[v].made
                   /\ columns' = columns]_vars

\* The view went from its list to a post; the trigger saw the post, which
\* is outside the whitelist: lastUrlRef holds the post, lastRecordedUrlRef
\* still the list, and nothing was called.
C31_Witness ==
    /\ loc["A"] = UStatus
    /\ lastUrlRef["A"] = UStatus
    /\ lastRecordedUrlRef["A"] = UList
    /\ ~lastCall["A"].made
    /\ FindColumn(columns, "A").currentUrl = UList

\* C32: lastRecordedUrlRef of a view is empty or a whitelisted URL, and
\* whenever lastUrlRef is a whitelisted URL lastRecordedUrlRef equals it.
C32_RecordedGuardIsWhitelisted ==
    \A v \in OneView :
        /\ (lastRecordedUrlRef[v] = EmptyStr \/ shouldRecordUrl(lastRecordedUrlRef[v]))
        /\ (Truthy(lastUrlRef[v]) /\ shouldRecordUrl(lastUrlRef[v]))
              => lastRecordedUrlRef[v] = lastUrlRef[v]

\* The view was seen at its list, then at a post, then at a search: both
\* guards hold the search URL.
C32_Witness ==
    /\ lastUrlRef["A"] = USearchQ
    /\ lastRecordedUrlRef["A"] = USearchQ
    /\ navCount >= 2
    /\ FindColumn(columns, "A").currentUrl = USearchQ

(***************************************************************************)
(* Properties of the records of rateLimitState.                            *)
(***************************************************************************)
RecordFields == {"limit", "remaining", "resetAt", "lastUpdated"}

\* C33: in the map the worker holds, lastUpdated of a category is null
\* exactly when its limit, remaining and resetAt are all null, and a
\* response the listener handles leaves no field null that held a number.
C33_RecordFieldsStayKnown ==
    /\ [](\A c \in RateLimitCategories :
             rateLimitState[c].lastUpdated = NullNum <=> ~HoldsQuota(rateLimitState[c]))
    /\ [][lastRequest'.seen =>
             \A c \in RateLimitCategories : \A f \in RecordFields :
                rateLimitState[c][f] # NullNum => rateLimitState'[c][f] # NullNum]_vars

\* The record of userTimeline held limit and resetAt 5 and no remaining;
\* a response that carries only x-rate-limit-remaining 0 was merged into it.
C33_Witness ==
    /\ lastRequest.seen
    /\ lastRequest.category = "userTimeline"
    /\ lastRequest.headers = ResponseOf(Absent, <<"0">>, Absent)
    /\ lastRequest.wrote
    /\ now = 2
    /\ rateLimitState["userTimeline"] =
          [limit |-> Num(5), remaining |-> Num(0), resetAt |-> Num(5), lastUpdated |-> Num(2)]
    /\ rateLimitState["homeLatestTimeline"] = DEFAULT_RATE_LIMIT_STATE["homeLatestTimeline"]

(***************************************************************************)
(* Properties of the screenName predicate.                                 *)
(***************************************************************************)
\* the handle of the rule is, but for the case of its letters, the account
\* of the link of the acting account: the first link of a shared item, the
\* link of the name block of any other
HandleIsActingAccount(rule, post) ==
    LET link == IF post.socialContext THEN post.firstLink ELSE post.userNameLink
    IN  /\ link # Null
        /\ ToLower(ScreenNameOfHref(link)) = ToLower(rule.screenName)

\* the predicates of the rule other than screenName hold of the post
OtherPredicatesHold(rule, post) ==
    /\ Truthy(rule.textPattern) => BodyMatches(rule.textPattern, post)
    /\ rule.isRetweet # "undefined" => (rule.isRetweet = "true" <=> post.socialContext)
    /\ rule.hasMedia # "undefined" => (rule.hasMedia = "true" <=> post.media)

\* C34: in a pass, a rule that defines screenName hides an item only when
\* its handle equals, without regard to case, the acting account of the
\* item (first link of a shared item, link of the name block otherwise);
\* the first rule of the pass hides an item whose other predicates hold
\* exactly when the handle equals that account, and an item without such
\* a link is not hidden by it.
C34_ScreenNameIsActingAccount ==
    [][lastPass'.ran =>
          \A i \in lastPass'.fresh : \A k \in 1..Len(activeFilters') :
             Truthy(activeFilters'[k].screenName) =>
                /\ posts'[i].hiddenBy = activeFilters'[k].id
                      => HandleIsActingAccount(activeFilters'[k], posts'[i])
                /\ (k = 1 /\ OtherPredicatesHold(activeFilters'[k], posts'[i])) =>
                      (posts'[i].hiddenBy = activeFilters'[k].id
                          <=> HandleIsActingAccount(activeFilters'[k], posts'[i]))]_vars

\* Under the rule of jack the page rendered the item jack shared from bob,
\* which the pass hid, and then an item without a link, which stays.
C34_Witness ==
    /\ lastPass.ran
    /\ Len(activeFilters) >= 1
    /\ activeFilters[1].id = "jack"
    /\ Len(posts) = 2
    /\ posts[1] = [PostJackRetweet EXCEPT !.processed = TRUE, !.display = "none", !.hiddenBy = "jack"]
    /\ posts[2] = [PostNoLink EXCEPT !.processed = TRUE]

(***************************************************************************)
(* Properties of the name extraction.                                      *)
(***************************************************************************)
\* the text before the first "@", trimmed; the whole text, trimmed, when
\* it holds no "@"
NameBeforeAt(text) ==
    IF \E i \in 1..Len(text) : text[i] = "@"
    THEN Trim(SubSeq(text, 1, IndexOf(text, "@") - 1))
    ELSE Trim(text)

\* the text from the first "@" on; null when it holds no "@"
NameFromAt(text) ==
    IF \E i \in 1..Len(text) : text[i] = "@"
    THEN Trim(SubSeq(text, IndexOf(text, "@"), Len(text)))
    ELSE Null

\* the name the landmark texts doc give: the name block is read on profile
\* routes, the navigation bar on list and community routes
NameIn(doc) ==
    IF doc.userName # Null THEN NameFromAt(doc.userName)
    ELSE IF doc.topNavBar # Null THEN NameBeforeAt(doc.topNavBar)
    ELSE Null

\* C35: an attempt that reads a landmark text delivers and caches the text
\* before the first "@", trimmed (the whole trimmed text without "@"), on
\* list and community routes and the text from the first "@" on for
\* profile routes; a missing landmark, a profile text without "@" and an
\* empty result are misses: nothing is cached or delivered as the name,
\* and the next attempt is scheduled or the fallback title is delivered.
C35_ExtractionAndMisses ==
    [][\A v \in OneView :
          dom'[v].read =>
             IF NameIn(dom'[v]) # Null /\ NameIn(dom'[v]) # EmptyStr
             THEN /\ lastCall'[v].made
                  /\ lastCall'[v].tier = "dom"
                  /\ lastCall'[v].title = NameIn(dom'[v])
                  /\ resolvedNamesRef'[v][lastCall'[v].url] = NameIn(dom'[v])
             ELSE /\ resolvedNamesRef'[v] = resolvedNamesRef[v]
                  /\ lastCall'[v].made =>
                        /\ lastCall'[v].tier = "fallback"
                        /\ Truthy(lastCall'[v].title)
                  /\ ~lastCall'[v].made =>
                        \E t \in RetryTimers(timers'[v]) :
                           /\ t.attempt >= 2
                           /\ CopiesIn(t, timers'[v]) > CopiesIn(t, timers[v])]_vars

\* The first attempt for the list read a navigation bar that shows only
\* the handle of the owner: nothing was delivered or cached and the second
\* attempt is pending.
C35_Witness ==
    /\ dom["A"].read
    /\ dom["A"].topNavBar = TextNoName
    /\ ~lastCall["A"].made
    /\ \A u \in Urls : resolvedNamesRef["A"][u] = Null
    /\ \E t \in RetryTimers(timers["A"]) : t.attempt = 2 /\ t.url = UList

(***************************************************************************)
(* The column actions of the store (store/index.ts) as the settings view   *)
(* and the columns call them, over the column records of the navigation    *)
(* model.                                                                  *)
(***************************************************************************)
\* columns.findIndex((c) => c.config.type === "settings"): 0-based, -1 when
\* there is none
SettingsPosition(cols) ==
    IF \E i \in 1..Len(cols) : cols[i].type = "settings"
    THEN (CHOOSE i \in 1..Len(cols) : cols[i].type = "settings" /\ \A j \in 1..(i - 1) : cols[j].type # "settings") - 1
    ELSE -1

\* addColumn that always appends
addColumnAtEnd(cols, column) == Append(cols, column)

\* addColumn(column): the new list
addColumn(cols, column) ==
    LET settingsIndex == SettingsPosition(cols)
    IN  IF settingsIndex # -1
        THEN SubSeq(cols, 1, settingsIndex) \o <<column>> \o SubSeq(cols, settingsIndex + 1, Len(cols))
        ELSE Append(cols, column)

\* removeColumn that adjusts the index only for a column it found
removeColumnFoundOnly(cols, idx, columnId) ==
    LET deletedIndex == ColumnIdx(cols, columnId) - 1
    IN  [columns |-> SelectSeq(cols, LAMBDA c : c.id # columnId),
         currentColumnIndex |-> IF deletedIndex # -1 /\ deletedIndex <= idx /\ idx > 0 THEN idx - 1 ELSE idx]

\* removeColumn(columnId) with currentColumnIndex idx: the new list and the
\* new index; findIndex gives -1 for an id no column has
removeColumn(cols, idx, columnId) ==
    LET deletedIndex == ColumnIdx(cols, columnId) - 1
    IN  [columns |-> SelectSeq(cols, LAMBDA c : c.id # columnId),
         currentColumnIndex |-> IF deletedIndex <= idx /\ idx > 0 THEN idx - 1 ELSE idx]

\* moveColumn(fromIndex, toIndex), both 0-based and within the list:
\* splice(fromIndex, 1), then splice(toIndex, 0, movedColumn)
moveColumn(cols, fromIndex, toIndex) ==
    LET rest == SubSeq(cols, 1, fromIndex) \o SubSeq(cols, fromIndex + 2, Len(cols))
    IN  SubSeq(rest, 1, toIndex) \o <<cols[fromIndex + 1]>> \o SubSeq(rest, toIndex + 1, Len(rest))

\* the column handleAddColumn makes at time `column-${Date.now()}`
NewColumn(time) ==
    [id |-> "column-" \o ToString(time), title |-> TitleHomeJa, currentUrl |-> UHome, type |-> "column"]

ColumnB == [id |-> "B", title |-> TitleMyList, currentUrl |-> UList, type |-> "column"]

ColumnA == [id |-> "A", title |-> TitleHomeJa, currentUrl |-> UHome, type |-> "column"]

\* the column lists a session starts with; the last one was imported
\* without a settings column
ColumnLists == { <<SettingsColumnRec>>, <<ColumnA, SettingsColumnRec>>, <<ColumnA, ColumnB>> }

\* the ids of the columns of a list that are not the settings column
ContentIdsOf(cols) == {cols[i].id : i \in {j \in 1..Len(cols) : cols[j].type # "settings"}}

\* the ids a column of this session can have; the store actions take any
\* id, and a pending callback of a column that was removed carries an id
\* the list has lost
ContentIds == {"A", "B"} \cup {NewColumn(t).id : t \in 1..MaxClock}

\* what useIframeUrlSync hands to handleUrlChange in this model
UrlChanges == { [url |-> UList, title |-> TitleMyList], [url |-> UList, title |-> EmptyStr] }

\* handleAddColumn without its setCurrentColumnIndex
AddColumnStaysPut ==
    /\ now < MaxClock
    /\ now' = now + 1
    /\ columns' = addColumn(columns, NewColumn(now + 1))
    /\ currentColumnIndex' = currentColumnIndex
    /\ Save(ConfigOf(columns', autoRefresh, filters, display, currentColumnIndex'))
    /\ lastColumnOp' = [NoColumnOp EXCEPT !.op = "addColumn", !.id = NewColumn(now + 1).id]
    /\ UNCHANGED <<autoRefresh, filters, display, navVars, sectionVars, filterVars, exportedFile, lastImport,
                   faulty, isLoading, rateLimitState, rateLimitStored, lastRequest, rateLimits, changes,
                   cleared, loadPending>>

\* handleAddColumn of the settings view: addColumn, then
\* setCurrentColumnIndex with the position the settings column had in the
\* list the view was rendered with; each of the two saves
AddColumn ==
    /\ now < MaxClock
    /\ now' = now + 1
    /\ \E settingsIndex \in {SettingsPosition(columns)} :
          /\ columns' = addColumn(columns, NewColumn(now + 1))
          /\ currentColumnIndex' = IF settingsIndex # -1 THEN settingsIndex ELSE currentColumnIndex
    /\ Save(ConfigOf(columns', autoRefresh, filters, display, currentColumnIndex'))
    /\ lastColumnOp' = [NoColumnOp EXCEPT !.op = "addColumn", !.id = NewColumn(now + 1).id]
    /\ UNCHANGED <<autoRefresh, filters, display, navVars, sectionVars, filterVars, exportedFile, lastImport,
                   faulty, isLoading, rateLimitState, rateLimitStored, lastRequest, rateLimits, changes,
                   cleared, loadPending>>

\* what a column action other than handleAddColumn leaves alone
unchangedByColumnOp ==
    <<autoRefresh, filters, display, navVars, sectionVars, filterVars, rateVars, exportedFile, lastImport,
      faulty, isLoading>>

\* the delete button of the row of column columnId: removeColumn(columnId)
RemoveColumn(columnId) ==
    /\ \E o \in {removeColumn(columns, currentColumnIndex, columnId)} :
          /\ columns' = o.columns
          /\ currentColumnIndex' = o.currentColumnIndex
    /\ Save(ConfigOf(columns', autoRefresh, filters, display, currentColumnIndex'))
    /\ lastColumnOp' = [NoColumnOp EXCEPT !.op = "removeColumn", !.id = columnId]
    /\ UNCHANGED unchangedByColumnOp

\* handleDragEnd: the row of column activeId was dropped on the row of
\* column overId; the rows are the columns other than the settings column
handleDragEnd(activeId, overId) ==
    /\ activeId # overId
    /\ \E oldIndex \in {ColumnIdx(columns, activeId) - 1}, newIndex \in {ColumnIdx(columns, overId) - 1} :
          IF oldIndex # -1 /\ newIndex # -1
          THEN /\ columns' = moveColumn(columns, oldIndex, newIndex)
               /\ Save(ConfigOf(columns', autoRefresh, filters, display, currentColumnIndex))
               /\ lastColumnOp' = [NoColumnOp EXCEPT !.op = "moveColumn", !.from = oldIndex, !.to = newIndex]
          ELSE /\ UNCHANGED <<columns, storedConfig>>
               /\ lastStorage' = NoStorage
               /\ lastColumnOp' = NoColumnOp
    /\ UNCHANGED <<currentColumnIndex, unchangedByColumnOp>>

\* handleUrlChange of the column columnId (GenericColumn.tsx):
\* updateColumnUrl(columnId, url, title) and its save
handleUrlChange(columnId, url, title) ==
    /\ columns' = updateColumnUrl(columns, columnId, url, title)
    /\ Save(ConfigOf(columns', autoRefresh, filters, display, currentColumnIndex))
    /\ lastColumnOp' = UrlOp(columnId, url, title)
    /\ UNCHANGED <<currentColumnIndex, unchangedByColumnOp>>

\* setCurrentColumnIndex(index): the user goes to another column
setCurrentColumnIndex(index) ==
    /\ index # currentColumnIndex
    /\ currentColumnIndex' = index
    /\ Save(ConfigOf(columns, autoRefresh, filters, display, index))
    /\ lastColumnOp' = [NoColumnOp EXCEPT !.op = "setCurrentColumnIndex", !.to = index]
    /\ UNCHANGED <<columns, unchangedByColumnOp>>

ColumnsInit ==
    /\ NavQuiet
    /\ RateQuiet
    /\ FilterQuiet
    /\ ConfigQuiet
    /\ columns \in ColumnLists
    /\ autoRefresh = DefaultAutoRefresh
    /\ filters = << >>
    /\ display = DefaultDisplay
    /\ currentColumnIndex \in 0..(Len(columns) - 1)
    /\ storedConfig = ConfigOf(columns, autoRefresh, filters, display, currentColumnIndex)

ColumnsNext ==
    \/ AddColumn
    \/ \E columnId \in ContentIds : RemoveColumn(columnId)
    \/ \E activeId \in ContentIdsOf(columns), overId \in ContentIdsOf(columns) : handleDragEnd(activeId, overId)
    \/ \E columnId \in ContentIds, c \in UrlChanges : handleUrlChange(columnId, c.url, c.title)
    \/ \E index \in 0..(Len(columns) - 1) : setCurrentColumnIndex(index)

SpecColumns == ColumnsInit /\ [][ColumnsNext]_vars

(***************************************************************************)
(* Properties of the column actions.                                       *)
(***************************************************************************)
\* the list holds exactly one settings column and holds it last
SettingsLast(cols) ==
    /\ Len(cols) >= 1
    /\ cols[Len(cols)].type = "settings"
    /\ \A i \in 1..(Len(cols) - 1) : cols[i].type # "settings"

\* C36: addColumn puts the new column immediately before the settings
\* column, or at the end of a list without one; a list that holds exactly
\* one settings column, in the last place, is still such a list after
\* addColumn, after removeColumn of a content column and after a move of a
\* content column to the place of another.
C36_SettingsColumnStaysLast ==
    [][/\ lastColumnOp'.op = "addColumn" =>
             \E p \in 1..Len(columns') :
                /\ columns'[p].id = lastColumnOp'.id
                /\ columns'[p].currentUrl = UHome
                /\ Len(columns') = Len(columns) + 1
                /\ \A i \in 1..(p - 1) : columns'[i] = columns[i]
                /\ \A i \in p..Len(columns) : columns'[i + 1] = columns[i]
                /\ IF \E i \in 1..Len(columns) : columns[i].type = "settings"
                   THEN /\ p <= Len(columns)
                        /\ columns[p].type = "settings"
                        /\ \A i \in 1..(p - 1) : columns[i].type # "settings"
                   ELSE p = Len(columns')
       /\ SettingsLast(columns) => SettingsLast(columns')]_vars

\* To the list of column A and the settings column a column was added, A
\* was dropped on the new column and A was removed: the new column and the
\* settings column are left, in this order.
C36_Witness ==
    /\ Len(columns) = 2
    /\ columns[1].id = NewColumn(1).id
    /\ columns[2] = SettingsColumnRec
    /\ lastColumnOp.op = "removeColumn"
    /\ lastColumnOp.id = "A"
    /\ now = 1

\* C37: removeColumn of a column other than the selected one leaves
\* currentColumnIndex at the column it was at; the index stays within the
\* list while a column remains; and removeColumn with an id no column has
\* changes neither the list nor currentColumnIndex.
C37_RemoveKeepsSelection ==
    [][lastColumnOp'.op = "removeColumn" =>
          LET known == \E i \in 1..Len(columns) : columns[i].id = lastColumnOp'.id
          IN  /\ (known /\ currentColumnIndex < Len(columns)
                        /\ columns[currentColumnIndex + 1].id # lastColumnOp'.id)
                    => /\ currentColumnIndex' < Len(columns')
                       /\ columns'[currentColumnIndex' + 1] = columns[currentColumnIndex + 1]
              /\ (currentColumnIndex < Len(columns) /\ Len(columns') >= 1)
                    => currentColumnIndex' \in 0..(Len(columns') - 1)
              /\ ~known => (columns' = columns /\ currentColumnIndex' = currentColumnIndex)]_vars

\* C38: updateColumnUrl(id, url, title) sets currentUrl of the column with
\* this id to url, and its title to title when title is not empty; the id
\* and the type of the column, every other column, the order of the
\* columns, the filters, the display and auto-refresh settings and
\* currentColumnIndex stay as they are, and so does the whole list when no
\* column has the id.
C38_UpdateColumnUrlFrame ==
    [][lastColumnOp'.op = "updateColumnUrl" =>
          /\ Len(columns') = Len(columns)
          /\ \A i \in 1..Len(columns) :
                IF columns[i].id = lastColumnOp'.id
                THEN columns'[i] = [id |-> columns[i].id, type |-> columns[i].type,
                                    currentUrl |-> lastColumnOp'.url,
                                    title |-> IF lastColumnOp'.title \in {EmptyStr, Null}
                                              THEN columns[i].title ELSE lastColumnOp'.title]
                ELSE columns'[i] = columns[i]
          /\ (\A i \in 1..Len(columns) : columns[i].id # lastColumnOp'.id) => columns' = columns
          /\ filters' = filters
          /\ display' = display
          /\ autoRefresh' = autoRefresh
          /\ currentColumnIndex' = currentColumnIndex]_vars

\* In the list of column A, column-1 and the settings column, A was
\* reported at the list URL without a title: it keeps its title, and
\* column-1 and the settings column are as they were.
C38_Witness ==
    /\ lastColumnOp = UrlOp("A", UList, EmptyStr)
    /\ Len(columns) = 3
    /\ columns[1] = [ColumnA EXCEPT !.currentUrl = UList]
    /\ columns[2] = NewColumn(1)
    /\ columns[3] = SettingsColumnRec
    /\ currentColumnIndex = 1

\* C39: after handleAddColumn over a list that holds a settings column,
\* currentColumnIndex is the index of the column just added, which is the
\* position the settings column had before, and the new column is at
\* https://x.com/home.
C39_SelectionGoesToNewColumn ==
    [][(lastColumnOp'.op = "addColumn" /\ SettingsPosition(columns) # -1) =>
          /\ currentColumnIndex' = SettingsPosition(columns)
          /\ currentColumnIndex' < Len(columns')
          /\ columns'[currentColumnIndex' + 1].id = lastColumnOp'.id
          /\ columns'[currentColumnIndex' + 1].currentUrl = UHome
          /\ \A i \in 1..Len(columns) : columns[i].id # lastColumnOp'.id]_vars

\* To the list of A and the settings column a second column was added
\* after the first one added had been removed: the new column is the
\* second column and it is selected.
C39_Witness ==
    /\ lastColumnOp.op = "addColumn"
    /\ lastColumnOp.id = NewColumn(2).id
    /\ Len(columns) = 3
    /\ columns[1].id = "A"
    /\ columns[2] = NewColumn(2)
    /\ columns[3] = SettingsColumnRec
    /\ currentColumnIndex = 1
    /\ storedConfig = ConfigOf(columns, autoRefresh, filters, display, 1)

(***************************************************************************)
(* hideRecommendedUsersSection (iframe initialisation) in a profile        *)
(* document with hideRecommendedUsers on.  A cell is one                   *)
(* div[data-testid="cellInnerDiv"]: kind tells what hideCells finds in it  *)
(* ("start": the text of the section heading; "end": a connect_people link *)
(* with the text of the closing link; "link": such a link with another     *)
(* text; "user", "post": neither), checked is the value of the attribute   *)
(* data-twitama-modoki-recommended-checked ("" when absent), display is    *)
(* style.display, scans counts the passes that examined the cell (2: more  *)
(* than one).                                                              *)
(***************************************************************************)
Cell(kind) == [kind |-> kind, checked |-> "", display |-> "", scans |-> 0]

RECURSIVE ScanCells(_, _, _, _)

\* cells.forEach of hideCells from cell i on over the cells without the
\* attribute, with startCell and endCell as found so far (0: null)
ScanCells(cs, i, startCell, endCell) ==
    IF i > Len(cs) THEN [cells |-> cs, startCell |-> startCell, endCell |-> endCell]
    ELSE IF cs[i].checked # "" THEN ScanCells(cs, i + 1, startCell, endCell)
    ELSE LET seen == [cs[i] EXCEPT !.scans = IF @ < 2 THEN @ + 1 ELSE @]
         IN  IF cs[i].kind = "start"
             THEN ScanCells([cs EXCEPT ![i] = [seen EXCEPT !.checked = "hidden"]], i + 1, i, endCell)
             ELSE IF startCell # 0 /\ cs[i].kind \in {"end", "link"}
             THEN IF cs[i].kind = "end"
                  THEN ScanCells([cs EXCEPT ![i] = [seen EXCEPT !.checked = "hidden"]], i + 1, startCell, i)
                  ELSE ScanCells([cs EXCEPT ![i] = seen], i + 1, startCell, endCell)
             ELSE ScanCells([cs EXCEPT ![i] = [seen EXCEPT !.checked = "skip"]], i + 1, startCell, endCell)

\* the while loop of hideCells: from startCell along nextElementSibling
\* until endCell has been hidden or the siblings end
HideFrom(cs, startCell, endCell) ==
    LET last == IF endCell >= startCell THEN endCell ELSE Len(cs)
    IN  [i \in 1..Len(cs) |->
            IF i \in startCell..last
            THEN [cs[i] EXCEPT !.display = "none", !.checked = "hidden"]
            ELSE cs[i]]

\* hideCells(): one pass over the document
hideCells(cs) ==
    LET scan == ScanCells(cs, 1, 0, 0)
    IN  IF scan.startCell # 0 /\ scan.endCell # 0
        THEN HideFrom(scan.cells, scan.startCell, scan.endCell)
        ELSE scan.cells

\* the cells the page adds to the document in one go
CellBatches ==
    { << >>, <<Cell("post")>>, <<Cell("start")>>, <<Cell("user")>>, <<Cell("end")>>, <<Cell("link")>>,
      <<Cell("start"), Cell("user")>>, <<Cell("user"), Cell("end")>>, <<Cell("start"), Cell("link")>>,
      <<Cell("start"), Cell("user"), Cell("end")>>,
      <<Cell("post"), Cell("start"), Cell("user"), Cell("end")>> }

\* the cells without the attribute
Unchecked(cs) == {i \in 1..Len(cs) : cs[i].checked = ""}

\* the load handler of the frame for a profile document that shows the
\* cells batch, with display.hideRecommendedUsers on:
\* hideRecommendedUsersSection(iframeDoc) runs hideCells() and observes
\* doc.body
SectionLoad(batch) ==
    /\ ~sectionWatch
    /\ cells' = hideCells(batch)
    /\ sectionWatch' = TRUE
    /\ lastScan' = [ran |-> TRUE, scanned |-> Unchecked(batch)]
    /\ UNCHANGED <<navVars, storeVars, rateVars, filterVars, configVars, lastColumnOp>>

\* the page appends the cells batch to the document; the MutationObserver
\* runs hideCells()
SectionMutate(batch) ==
    /\ sectionWatch
    /\ batch # << >>
    /\ Len(cells) + Len(batch) <= MaxCells
    /\ \E cs \in {cells \o batch} :
          /\ cells' = hideCells(cs)
          /\ lastScan' = [ran |-> TRUE, scanned |-> Unchecked(cs)]
    /\ UNCHANGED <<sectionWatch, navVars, storeVars, rateVars, filterVars, configVars, lastColumnOp>>

SectionInit == ConfigInit

SectionNext ==
    \/ \E batch \in CellBatches : SectionLoad(batch)
    \/ \E batch \in CellBatches : SectionMutate(batch)

SpecSection == SectionInit /\ [][SectionNext]_vars

\* cells i..j are a section: i shows the heading, j is the first cell
\* after i that shows the closing link
IsSection(cs, i, j) ==
    /\ i < j
    /\ cs[i].kind = "start"
    /\ cs[j].kind = "end"
    /\ \A k \in (i + 1)..(j - 1) : cs[k].kind \notin {"start", "end"}

\* C40: in a watched profile document, every cell of a section whose
\* start cell and end cell are both in the document is hidden, whether the
\* two were rendered in one pass or in two; a cell outside every section
\* is not hidden; and no cell is examined by more than one pass.
C40_SectionIsHidden ==
    sectionWatch =>
       /\ \A i \in 1..Len(cells), j \in 1..Len(cells) :
             IsSection(cells, i, j) => \A k \in i..j : cells[k].display = "none"
       /\ \A k \in 1..Len(cells) :
             cells[k].display = "none" =>
                \E i \in 1..k, j \in k..Len(cells) : IsSection(cells, i, j)
       /\ \A k \in 1..Len(cells) : cells[k].scans <= 1

=============================================================================
